---- MODULE Spec2Model ----
(***************************************************************************)
(* spyrun: the event-to-execution pipeline.                                *)
(*                                                                         *)
(*   command.rs   execute_command: render, debounce, throttle, mutex, exec *)
(*   main.rs      watcher (per-spy dispatcher thread, completion drain),   *)
(*                main (supervisor, sentinel watchers, shutdown)           *)
(*   spy.rs       walk, watch                                              *)
(*                                                                         *)
(* Time is a discrete clock (one tick = one time unit of Instant).         *)
(* A rendered key is a sequence of strings; the empty string is <<>>.      *)
(***************************************************************************)
EXTENDS Integers, Sequences, FiniteSets, TLC

\* ------------------------------------------------------------------ bounds
NThreads == 2
NSpies == 2
MaxEvents == 2
MaxPool == 2
MaxTime == 4
DebounceMs == 2
ThrottleMs == 3
MaxTouch == 1
MaxStr == 3

\* Owner 0 is a caller outside the pipeline (the threads of command.rs's
\* tests, main with the init command); owners 1..NSpies are the spies of
\* settings.spys.
Harness == 0
Spies == 1..NSpies
Owners == {Harness} \cup Spies
TaskIds == ({Harness} \X (1..NThreads)) \cup (Spies \X (1..MaxEvents))
Times == 0..MaxTime
Names == {"n1", "n2"}

VARIABLES
    clock,        \* Instant::now()
    dt_cache,     \* per owner: HashMap<String, Instant>, key -> last stamp
    mutex_cache,  \* HashSet<String> of held mutex keys
    spys,         \* per owner: debounce, throttle, key templates, events, patterns
    task,         \* per invocation of execute_command: its position and locals
                  \* (seen: when the watcher sent the event that caused it)
    max_threads,  \* cfg.max_threads: size of the global rayon pool
    injq,         \* the pool's injector queue (FIFO of jobs)
    par,          \* the supervisor's par_iter over results: per spy its state
    chan,         \* per spy: the mpsc channel (tx, rx) of Message
    dsp,          \* per spy: the dispatcher thread's position
    fsleft,       \* filesystem events still to come
    watch,        \* per spy: the files created under its input since the
                  \* watcher was registered, the results notify has pending,
                  \* and whether the thread that runs the callback is alive
    sup,          \* the supervisor's state
    rx_stop,      \* the sentinel channel of "stop" / "stop_force"
    sentinel,     \* raw notify events pending at the two sentinel watchers,
                  \* whether the thread of each watcher is alive, the event
                  \* a callback was last run with
    exited,       \* the process: "no", "code0", "code1", "code101", "abort"
    init,         \* settings.init: NoInit, or the [init] table of the config
    toml,         \* the [[spys]] entries of the config file as written, while
                  \* main loads the settings
    tera,         \* a template that calls enc and dec: the string given to
                  \* enc, the values enc returned, the value dec returned
    lk            \* per thread of execute_command: the statement it is at and
                  \* the MutexGuards it holds

schedVars == <<clock, dt_cache, mutex_cache, task>>
poolVars == <<max_threads, injq, par>>
spyVars == <<chan, dsp, fsleft, watch>>
supVars == <<sup, rx_stop, sentinel, exited, init, toml, tera, lk>>
vars == <<clock, dt_cache, mutex_cache, spys, task, max_threads, injq, par,
          chan, dsp, fsleft, watch, sup, rx_stop, sentinel, exited, init, toml, tera, lk>>

\* ------------------------------------------------------------ command.rs
\* Templates: "" (absent), a literal, one that renders to the empty string,
\* and one that renders the event path.
TmplEmpty == ""
TmplShared == "shared"
TmplBlank == "{{ env(arg='UNSET') }}"
TmplEventPath == "{{ event_path }}"

\* {:?} of a PathBuf or a String: the text between double quotes
DebugStr(str) == <<"\"">> \o str \o <<"\"">>

\* {:?} of a Vec<String>: the elements' {:?} between brackets, comma-separated
RECURSIVE DebugVecItems(_)
DebugVecItems(v) ==
    IF v = <<>> THEN <<>>
    ELSE IF Len(v) = 1 THEN DebugStr(v[1])
    ELSE DebugStr(v[1]) \o <<", ">> \o DebugVecItems(Tail(v))
DebugVec(v) == <<"[">> \o DebugVecItems(v) \o <<"]">>

\* impl fmt::Display for CommandInfo: the write! of lines 40-51. A string is
\* the sequence of its pieces; name, event_kind, cmd, input and output are
\* written as they are ({}), event_path and arg quoted ({:?}).
CommandInfoDisplay(ci) ==
    <<"CommandInfo { name: ">> \o ci.name
        \o <<", event_path: ">> \o DebugStr(ci.event_path)
        \o <<", event_kind: ">> \o <<ci.event_kind>>
        \o <<", cmd: ">> \o ci.cmd
        \o <<", arg: ">> \o DebugVec(ci.arg)
        \o <<", input: ">> \o ci.input
        \o <<", output: ">> \o ci.output \o <<" }">>

\* struct CommandInfo with nothing filled in
NoInfo ==
    [name |-> <<>>, event_path |-> <<>>, event_kind |-> "", cmd |-> <<>>,
     arg |-> <<>>, input |-> <<>>, output |-> <<>>]

\* insert_default_context (util.rs lines 153-182), called by Settings::new on
\* the context main hands to every invocation: each name a template of the
\* config may use stands for its own placeholder text
DefaultContext(name) == <<"{{ ", name, " }}">>

\* tera.render of a key template against the context execute_command was
\* given (lines 263-273). The event's path decomposition and the rendered
\* spy_name, cmd, arg, input, output are inserted by render_command into a
\* clone of its own (lines 148-171; the caller passes context.clone(), line
\* 256): the key templates see what the caller's context holds, for
\* event_path the placeholder of insert_default_context.
RenderKey(tmpl, ci) ==
    CASE tmpl = TmplShared -> <<"shared">>
      [] tmpl = TmplBlank -> <<>>
      [] tmpl = TmplEventPath -> DefaultContext("event_path")
      [] OTHER -> <<tmpl>>

\* an empty template that turns the key off
EffectiveKeyOff(tmpl, ci) ==
    IF tmpl = TmplEmpty THEN <<>> ELSE RenderKey(tmpl, ci)

\* execute_command, step 2: the effective key of a template
EffectiveKey(tmpl, ci) ==
    IF tmpl = TmplEmpty THEN CommandInfoDisplay(ci) ELSE RenderKey(tmpl, ci)

\* Instant::duration_since saturates to zero
DurationSince(later, earlier) ==
    IF later >= earlier THEN later - earlier ELSE 0

\* an invocation that has not begun: info is the rendered CommandInfo,
\* stdout and stderr are exec's stdout_path and stderr_path, logs the log
\* files exec has created, ret the return site, logged what the completion
\* drain wrote about it
IdleTask ==
    [pc |-> "idle", info |-> NoInfo,
     limitkey |-> <<>>, mutexkey |-> <<>>, debounce |-> 0, throttle |-> 0,
     seen |-> 0, now |-> 0, wake |-> 0, ret |-> "none", status |-> 0,
     stdout |-> <<>>, stderr |-> <<>>, logs |-> {}, logged |-> "none"]

Alive == exited = "no"

\* a throttle stage that is entered whenever debounce is off
StageAfterRenderThrottled(debounce, throttle) ==
    IF debounce > 0 THEN "deb_stamp" ELSE "thr_check"

\* The first stage an invocation enters after rendering (lines 286, 297, 308)
StageAfterRender(debounce, throttle) ==
    IF debounce > 0 THEN "deb_stamp"
    ELSE IF throttle > 0 THEN "thr_check" ELSE "mutex"

\* a debounce whose pass goes to the mutex stage at once
StageAfterDebounceToMutex(throttle) == "mutex"

\* The stage after debounce has passed (line 297 tests throttle alone)
StageAfterDebounce(throttle) ==
    IF throttle > 0 THEN "thr_now" ELSE "mutex"

\* What rendering can come to: every template renders ("ok"); new_tera,
\* tera.render or create_dir_all returns an error that `?` hands to the caller
\* (spy_name, cmd, input, output, limitkey, mutexkey: lines 150-172, 263-273);
\* an unwrap fails (insert_file_context line 149, an arg template lines
\* 159-160) and the thread panics.
RenderOutcomes == {"ok", "err", "panic"}

\* execute_command lines 246-283 and the first Instant::now() of the stage
\* entered: render the CommandInfo (ci is its rendered form) and both keys.
Enter(t, ci, cfg, r) ==
    task' = [task EXCEPT ![t] =
        IF r = "ok"
        THEN [IdleTask EXCEPT
                !.pc = StageAfterRender(cfg.debounce, cfg.throttle),
                !.info = ci,
                !.seen = task[t].seen,
                !.limitkey = EffectiveKey(cfg.limitkey, ci),
                !.mutexkey = EffectiveKey(cfg.mutexkey, ci),
                !.debounce = cfg.debounce,
                !.throttle = cfg.throttle,
                !.now = clock]
        ELSE [IdleTask EXCEPT
                !.pc = "ret",
                !.seen = task[t].seen,
                !.ret = IF r = "err" THEN "render_err" ELSE "panic"]]

\* apply_debounce lines 72-74: lock, insert(limitkey, now), drop; sleep begins
DebounceStamp(t) ==
    LET o == t[1] IN
    /\ Alive
    /\ task[t].pc = "deb_stamp"
    /\ dt_cache' = [dt_cache EXCEPT ![o] =
            (task[t].limitkey :> task[t].now) @@ dt_cache[o]]
    /\ task' = [task EXCEPT ![t].pc = "deb_sleep",
                            ![t].wake = clock + task[t].debounce]
    /\ UNCHANGED <<clock, mutex_cache, spys>>
    /\ UNCHANGED <<poolVars, spyVars, supVars>>

\* apply_debounce line 81: executed > &now
DebounceSkips(executed, now) == executed > now

\* apply_debounce lines 77-87 and execute_command lines 286-293: the sleep
\* is over, lock and compare the stored stamp to the own one
DebounceCheck(t) ==
    LET o == t[1]
        executed == dt_cache[o][task[t].limitkey] IN
    /\ Alive
    /\ task[t].pc = "deb_sleep"
    /\ clock >= task[t].wake
    /\ IF DebounceSkips(executed, task[t].now)
       THEN task' = [task EXCEPT ![t].pc = "ret", ![t].ret = "debounce_skip"]
       ELSE task' = [task EXCEPT ![t].pc = StageAfterDebounce(task[t].throttle)]
    /\ UNCHANGED <<clock, dt_cache, mutex_cache, spys>>
    /\ UNCHANGED <<poolVars, spyVars, supVars>>

\* apply_throttle line 99 when it follows a passed debounce
ThrottleNow(t) ==
    /\ Alive
    /\ task[t].pc = "thr_now"
    /\ task' = [task EXCEPT ![t].pc = "thr_check", ![t].now = clock]
    /\ UNCHANGED <<clock, dt_cache, mutex_cache, spys>>
    /\ UNCHANGED <<poolVars, spyVars, supVars>>

\* a throttle test on a signed difference: an entry stamped after `now` counts
\* as outside the window
ThrottleSkipsSigned(cache, limitkey, now, threshold) ==
    /\ limitkey \in DOMAIN cache
    /\ now >= cache[limitkey]
    /\ now - cache[limitkey] < threshold

\* apply_throttle lines 101-103: an entry exists and is younger than threshold
ThrottleSkips(cache, limitkey, now, threshold) ==
    /\ limitkey \in DOMAIN cache
    /\ DurationSince(now, cache[limitkey]) < threshold

\* apply_throttle lines 100-113 and execute_command lines 297-304
ThrottleCheck(t) ==
    LET o == t[1] IN
    /\ Alive
    /\ task[t].pc = "thr_check"
    /\ IF ThrottleSkips(dt_cache[o], task[t].limitkey, task[t].now, task[t].throttle)
       THEN /\ task' = [task EXCEPT ![t].pc = "ret", ![t].ret = "throttle_skip"]
            /\ UNCHANGED dt_cache
       ELSE /\ dt_cache' = [dt_cache EXCEPT ![o] =
                    (task[t].limitkey :> task[t].now) @@ dt_cache[o]]
            /\ task' = [task EXCEPT ![t].pc = "mutex"]
    /\ UNCHANGED <<clock, mutex_cache, spys>>
    /\ UNCHANGED <<poolVars, spyVars, supVars>>

\* an acquire that never tests membership
MutexFreeAlways(mutexkey, held) == TRUE

\* acquire_mutex lines 119-131: TRUE iff the caller may proceed
MutexFree(mutexkey, held) == mutexkey = <<>> \/ mutexkey \notin held

\* acquire_mutex: the set after the call
MutexInsert(mutexkey, held) ==
    IF mutexkey = <<>> THEN held ELSE held \cup {mutexkey}

\* release_mutex lines 135-143: the set after the call
MutexRemove(mutexkey, held) ==
    IF mutexkey = <<>> THEN held ELSE held \ {mutexkey}

\* an acquire that waits for the holder instead of returning skipped
AcquireMutexWait(t) ==
    /\ Alive
    /\ task[t].pc = "mutex"
    /\ MutexFree(task[t].mutexkey, mutex_cache)
    /\ mutex_cache' = MutexInsert(task[t].mutexkey, mutex_cache)
    /\ task' = [task EXCEPT ![t].pc = "exec"]
    /\ UNCHANGED <<clock, dt_cache, spys>>
    /\ UNCHANGED <<poolVars, spyVars, supVars>>

\* execute_command lines 308-324: acquire, or return skipped
AcquireMutex(t) ==
    /\ Alive
    /\ task[t].pc = "mutex"
    /\ IF MutexFree(task[t].mutexkey, mutex_cache)
       THEN /\ mutex_cache' = MutexInsert(task[t].mutexkey, mutex_cache)
            /\ task' = [task EXCEPT ![t].pc = "exec"]
       ELSE /\ task' = [task EXCEPT ![t].pc = "ret", ![t].ret = "mutex_skip"]
            /\ UNCHANGED mutex_cache
    /\ UNCHANGED <<clock, dt_cache, spys>>
    /\ UNCHANGED <<poolVars, spyVars, supVars>>

\* Where exec can fail: nowhere, create_dir_all (line 188), the open of the
\* stdout log (192-195), of the stderr log (196-199), spawn (206-210)
ExecFails == {"none", "dir", "stdout", "stderr", "spawn"}

\* exec lines 187-191: the two log paths under the output directory; "now"
\* is the local wall-clock time formatted as %Y%m%d_%H%M%S%3f
LogPath(ci, stream) ==
    ci.output \o <<"/">> \o ci.name \o <<"_", stream, "_", "now", ".log">>

\* log files that are opened only after the child has been spawned
LogsCreatedLate(ci, fail) == {}

\* exec lines 188-199: the log files created when exec fails at `fail`
LogsCreated(ci, fail) ==
    CASE fail = "dir" -> {}
      [] fail = "stdout" -> {}
      [] fail = "stderr" -> {LogPath(ci, "stdout")}
      [] OTHER -> {LogPath(ci, "stdout"), LogPath(ci, "stderr")}

\* an exec whose error path returns without the release
ExecSpawnLeak(t, fail) ==
    /\ Alive
    /\ task[t].pc = "exec"
    /\ IF fail = "none"
       THEN task' = [task EXCEPT ![t].pc = "wait",
                        ![t].stdout = LogPath(task[t].info, "stdout"),
                        ![t].stderr = LogPath(task[t].info, "stderr"),
                        ![t].logs = LogsCreated(task[t].info, fail)]
       ELSE task' = [task EXCEPT ![t].pc = "ret", ![t].ret = "exec_err",
                        ![t].logs = LogsCreated(task[t].info, fail)]
    /\ UNCHANGED <<clock, dt_cache, mutex_cache, spys>>
    /\ UNCHANGED <<poolVars, spyVars, supVars>>

\* exec lines 187-211: create the output directory and both log files, spawn.
\* An I/O or spawn error leaves exec with Err; the deferred release runs.
ExecSpawn(t, fail) ==
    /\ Alive
    /\ task[t].pc = "exec"
    /\ IF fail = "none"
       THEN /\ task' = [task EXCEPT ![t].pc = "wait",
                            ![t].stdout = LogPath(task[t].info, "stdout"),
                            ![t].stderr = LogPath(task[t].info, "stderr"),
                            ![t].logs = LogsCreated(task[t].info, fail)]
            /\ UNCHANGED mutex_cache
       ELSE /\ task' = [task EXCEPT ![t].pc = "ret", ![t].ret = "exec_err",
                            ![t].logs = LogsCreated(task[t].info, fail)]
            /\ mutex_cache' = MutexRemove(task[t].mutexkey, mutex_cache)
    /\ UNCHANGED <<clock, dt_cache, spys>>
    /\ UNCHANGED <<poolVars, spyVars, supVars>>

\* an exec that takes a non-zero status for an error
ChildExitStrict(t, status) ==
    /\ Alive
    /\ task[t].pc = "wait"
    /\ task' = [task EXCEPT ![t].pc = "ret",
                            ![t].ret = IF status = 0 THEN "exec_ok" ELSE "exec_err",
                            ![t].status = status]
    /\ mutex_cache' = MutexRemove(task[t].mutexkey, mutex_cache)
    /\ UNCHANGED <<clock, dt_cache, spys>>
    /\ UNCHANGED <<poolVars, spyVars, supVars>>

\* exec lines 212-224: the child exits with a status, zero or not, and exec
\* returns Ok; execute_command's defer! releases the mutex key (lines 311-313)
ChildExit(t, status) ==
    /\ Alive
    /\ task[t].pc = "wait"
    /\ task' = [task EXCEPT ![t].pc = "ret", ![t].ret = "exec_ok",
                            ![t].status = status]
    /\ mutex_cache' = MutexRemove(task[t].mutexkey, mutex_cache)
    /\ UNCHANGED <<clock, dt_cache, spys>>
    /\ UNCHANGED <<poolVars, spyVars, supVars>>

\* time passes
Tick ==
    /\ Alive
    /\ clock < MaxTime
    /\ clock' = clock + 1
    /\ UNCHANGED <<dt_cache, mutex_cache, spys, task>>
    /\ UNCHANGED <<poolVars, spyVars, supVars>>

\* The Result<CommandResult> an invocation returns (lines 286-324 and exec
\* lines 219-224): Err, or Ok with the four fields of CommandResult
ResultOf(t) ==
    CASE task[t].ret \in {"debounce_skip", "throttle_skip", "mutex_skip"} ->
            [ok |-> TRUE, skipped |-> TRUE, status |-> 0,
             stdout |-> <<>>, stderr |-> <<>>]
      [] task[t].ret = "exec_ok" ->
            [ok |-> TRUE, skipped |-> FALSE, status |-> task[t].status,
             stdout |-> task[t].stdout, stderr |-> task[t].stderr]
      [] OTHER ->
            [ok |-> FALSE, skipped |-> FALSE, status |-> 0,
             stdout |-> <<>>, stderr |-> <<>>]

\* CommandResult.skipped of a returned invocation
Skipped(t) == task[t].ret \in {"debounce_skip", "throttle_skip", "mutex_skip"}
Returned(t) == task[t].pc \in {"ret", "sent", "logged"}
Proceeded(t) == Returned(t) /\ task[t].ret \in {"exec_ok", "exec_err"}
InRegion(t) == task[t].pc \in {"exec", "wait"}

\* --------------------------------------------- command.rs tests: callers
HarnessTasks == {Harness} \X (1..NThreads)

\* the CommandInfo the tests' threads pass, by name
HarnessInfo(name) ==
    [name |-> <<name>>, event_path |-> <<"event">>, event_kind |-> "Create",
     cmd |-> <<"cmd">>, arg |-> << <<"arg">> >>, input |-> <<"input">>,
     output |-> <<"output">>]
HarnessInfos == {HarnessInfo(name) : name \in Names}

\* thread::spawn(move || execute_command(...)) of the tests
Call(t, ci, r) ==
    /\ Alive
    /\ t \in HarnessTasks
    /\ task[t].pc = "idle"
    /\ Enter(t, ci, spys[Harness], r)
    /\ UNCHANGED <<clock, dt_cache, mutex_cache, spys>>
    /\ UNCHANGED <<poolVars, spyVars, supVars>>

\* Option<T>: None, Some(x)
None == <<>>
Some(x) == <<x>>

\* struct Pattern (settings.rs): a regex as the sequence of its pieces
ReExt(ext) == <<"\\.", ext, "$">>
ReAny == <<".">>
PatPs1 == [pattern |-> ReExt("ps1"), cmd |-> <<"powershell">>, arg |-> << <<"-File">> >>]
PatCmd == [pattern |-> ReExt("cmd"), cmd |-> <<"cmd.exe">>, arg |-> <<>>]
PatAny == [pattern |-> ReAny, cmd |-> <<"any">>, arg |-> <<>>]

\* Spy::default events and patterns (settings.rs lines 188, 196-206)
SpyEvents == <<"Create", "Modify">>
SpyPatterns == <<PatPs1, PatCmd>>

Debounces == {0, DebounceMs}
Throttles == {0, ThrottleMs}
SpyCfgs ==
    [debounce : Debounces, throttle : Throttles,
     limitkey : {TmplEmpty, TmplShared},
     mutexkey : {TmplEmpty, TmplShared, TmplBlank},
     walk : {None}, events : {Some(SpyEvents)}, patterns : {SpyPatterns}]

\* impl Default for Spy (settings.rs): throttle 0, debounce 0, empty templates
DefaultCfg ==
    [debounce |-> 0, throttle |-> 0, limitkey |-> TmplEmpty, mutexkey |-> TmplEmpty,
     walk |-> None, events |-> Some(SpyEvents), patterns |-> SpyPatterns]

\* --------------------------------------------------- main.rs: the pipeline
PipeTasks == Spies \X (1..MaxEvents)
TasksOf(s) == {s} \X (1..MaxEvents)
ParJob == <<0, 0>>
StopMsg == [kind |-> "Stop", paths |-> <<>>, at |-> 0]
EventKinds == {"Create", "Remove"}
EventPath == <<"a", ".", "ps1">>

\* notify::EventKind, and event_kind_to_string: everything that is not
\* Create, Remove, Modify or Access is "Other"
RawKinds == {"Any", "Access", "Create", "Modify", "Remove", "Other"}
event_kind_to_string(kind) ==
    IF kind \in {"Create", "Remove", "Modify", "Access"} THEN kind ELSE "Other"

\* Regex::is_match for the regexes above: "." matches any non-empty text,
\* "\.ext$" a text that ends in a dot and ext
IsMatch(re, path) ==
    IF re = ReAny THEN path # <<>>
    ELSE /\ Len(path) >= 2
         /\ path[Len(path) - 1] = "."
         /\ path[Len(path)] = re[2]

NoPattern == [pattern |-> <<>>, cmd |-> <<>>, arg |-> <<>>]
Matches(patterns, path) ==
    {i \in 1..Len(patterns) : IsMatch(patterns[i].pattern, path)}
LastPath(event) == event.paths[Len(event.paths)]

\* a selection that takes the last matching pattern
FindPatternLast(event, spy) ==
    LET m == Matches(spy.patterns, LastPath(event))
        events == spy.events[1] IN
    IF (\E i \in 1..Len(events) : events[i] = event_kind_to_string(event.kind))
        /\ m # {}
    THEN spy.patterns[CHOOSE i \in m : \A j \in m : j <= i]
    ELSE NoPattern

\* find_pattern, for an event with at least one path and a spy whose events
\* are Some list: Iterator::find gives the first pattern in declared order
\* whose regex matches the last path; it is returned if the kind's token is
\* one of the spy's events
FindPattern(event, spy) ==
    LET m == Matches(spy.patterns, LastPath(event))
        events == spy.events[1] IN
    IF (\E i \in 1..Len(events) : events[i] = event_kind_to_string(event.kind))
        /\ m # {}
    THEN spy.patterns[CHOOSE i \in m : \A j \in m : i <= j]
    ELSE NoPattern

\* pool threads that are running a job: a worker task, or a closure of the
\* supervisor's par_iter blocked in handle.join()
OnPool(t) ==
    t \in PipeTasks /\ task[t].pc \notin {"idle", "queued", "sent", "logged"}
Busy ==
    Cardinality({t \in PipeTasks : OnPool(t)})
        + Cardinality({s \in Spies : par[s] = "joining"})

\* settings.init (Option<Init>): None
NoInit == [present |-> FALSE, error_stop |-> FALSE]

\* the invocation of the init command: main calls execute_command itself,
\* with a cache of its own (line 322)
InitTask == <<Harness, 1>>

\* main lines 312-318: the executable as the event path, the name "init",
\* the input "input", the log directory as output, init.cmd and init.arg
InitInfo ==
    [name |-> <<"init">>, event_path |-> <<"exe">>, event_kind |-> "",
     cmd |-> <<"init.cmd">>, arg |-> << <<"init.arg">> >>, input |-> <<"input">>,
     output |-> <<"log_dir">>]

\* main lines 319-320: debounce 0, throttle one second; no key template
InitCfg ==
    [debounce |-> 0, throttle |-> ThrottleMs, limitkey |-> TmplEmpty,
     mutexkey |-> TmplEmpty]

\* main lines 311-323: with an [init] table, main enters execute_command. A
\* panic of the rendering unwinds the main thread: exit code 101.
InitRun(r) ==
    /\ Alive
    /\ sup = "Initializing"
    /\ init.present
    /\ task[InitTask].pc = "idle"
    /\ Enter(InitTask, InitInfo, InitCfg, r)
    /\ IF r = "panic"
       THEN sup' = "Panicked" /\ exited' = "code101"
       ELSE UNCHANGED <<sup, exited>>
    /\ UNCHANGED <<clock, dt_cache, mutex_cache, spys, poolVars, spyVars>>
    /\ UNCHANGED <<rx_stop, sentinel, init, toml, tera, lk>>

\* main line 326: the status of the init command is Err
InitFailed == task[InitTask].pc = "ret" /\ ~ResultOf(InitTask).ok

\* main lines 326-330: Err and error_stop: bail!, main returns the error and
\* the process ends with code 1
InitAbort ==
    /\ Alive
    /\ sup = "Initializing"
    /\ init.present /\ init.error_stop
    /\ InitFailed
    /\ sup' = "Aborted"
    /\ exited' = "code1"
    /\ UNCHANGED <<schedVars, spys, poolVars, spyVars, rx_stop, sentinel, init, toml, tera, lk>>

\* main lines 311, 324-332: nothing keeps main from the spies
InitPassed ==
    IF init.present
    THEN task[InitTask].pc = "ret" /\ (ResultOf(InitTask).ok \/ ~init.error_stop)
    ELSE TRUE

\* a start that makes the stop channel anew when the spies are started
SupStartFlush ==
    /\ Alive
    /\ sup = "Initializing"
    /\ InitPassed
    /\ sup' = "Running"
    /\ dsp' = [s \in Spies |-> "walk"]
    /\ rx_stop' = <<>>
    /\ UNCHANGED <<schedVars, spys, poolVars, chan, fsleft, watch, sentinel, exited, init, toml, tera, lk>>

\* main lines 335-343: watcher(spy) spawns the dispatcher thread of every spy
SupStart ==
    /\ Alive
    /\ sup = "Initializing"
    /\ InitPassed
    /\ sup' = "Running"
    /\ dsp' = [s \in Spies |-> "walk"]
    /\ UNCHANGED <<schedVars, spys, poolVars, chan, fsleft, watch, rx_stop, sentinel, exited, init, toml, tera, lk>>

\* string_to_event_kind (spy.rs): the EventKind of a token
string_to_event_kind(str) ==
    IF str \in {"Access", "Create", "Modify", "Remove"} THEN str ELSE "Modify"

\* The directory tree under a spy's input, in the order WalkDir yields it
\* (a directory before its contents), each entry with its depth below the
\* root: two files and a directory at depth 1, a file and a directory whose
\* name ends in .ps1 at depth 2, a file at depth 3. Every entry is readable
\* and its path is UTF-8.
Tree ==
    << [path |-> <<"input">>, depth |-> 0, file |-> FALSE],
       [path |-> <<"input", "/", "a", ".", "ps1">>, depth |-> 1, file |-> TRUE],
       [path |-> <<"input", "/", "y", ".", "log">>, depth |-> 1, file |-> TRUE],
       [path |-> <<"input", "/", "nested">>, depth |-> 1, file |-> FALSE],
       [path |-> <<"input", "/", "nested", "/", "z", ".", "ps1">>,
        depth |-> 2, file |-> TRUE],
       [path |-> <<"input", "/", "nested", "/", "old", ".", "ps1">>,
        depth |-> 2, file |-> FALSE],
       [path |-> <<"input", "/", "nested", "/", "old", ".", "ps1", "/", "w", ".", "ps1">>,
        depth |-> 3, file |-> TRUE] >>

\* struct Walk: files with the extension ps1 right under the input
WalkTop ==
    [min_depth |-> Some(1), max_depth |-> Some(1), pattern |-> Some(ReExt("ps1"))]

\* Spy::walk lines 118-125 and 139-146: the entries WalkDir yields between
\* min_depth (0 when None) and max_depth (no limit when None), filtered by
\* the regex on the entry's path when a pattern is set
WalkEntries(walk) ==
    SelectSeq(Tree, LAMBDA e :
        /\ (walk.min_depth # None => e.depth >= walk.min_depth[1])
        /\ (walk.max_depth # None => e.depth <= walk.max_depth[1])
        /\ (walk.pattern # None => IsMatch(walk.pattern[1], e.path)))

\* Spy::walk lines 133-137: the kind of the synthetic events is that of the
\* first entry of events, of ["Create", "Modify"] when events is None
WalkKind(events) ==
    string_to_event_kind((IF events = None THEN <<"Create", "Modify">> ELSE events[1])[1])

\* the events the walker thread has sent: while the dispatcher waits for the
\* walk nothing else sends an Event to the channel, and nothing receives
WalkSent(s) == Len(SelectSeq(chan[s], LAMBDA m : m # StopMsg))

\* Spy::walk lines 147-163: the walker thread sends the synthetic event of
\* the next entry, with the entry's path as its only path
WalkEmit(s) ==
    /\ Alive
    /\ dsp[s] = "walk"
    /\ spys[s].walk # None
    /\ spys[s].events # Some(<<>>)
    /\ WalkSent(s) < Len(WalkEntries(spys[s].walk[1]))
    /\ chan' = [chan EXCEPT ![s] = Append(@,
            [kind |-> WalkKind(spys[s].events),
             paths |-> <<WalkEntries(spys[s].walk[1])[WalkSent(s) + 1].path>>,
             at |-> clock])]
    /\ UNCHANGED <<schedVars, spys, poolVars, dsp, fsleft, watch, supVars>>

\* Spy::walk line 136: the index [0] of an empty events list panics in the
\* dispatcher thread, which called spy.walk (watcher line 121)
WalkPanic(s) ==
    /\ Alive
    /\ dsp[s] = "walk"
    /\ spys[s].walk # None
    /\ spys[s].events = Some(<<>>)
    /\ dsp' = [dsp EXCEPT ![s] = "panicked"]
    /\ chan' = [chan EXCEPT ![s] = <<>>]
    /\ UNCHANGED <<schedVars, spys, poolVars, fsleft, watch, supVars>>

\* the walker thread has sent every event (or there is no walk)
WalkDone(s) ==
    IF spys[s].walk = None THEN TRUE
    ELSE /\ spys[s].events # Some(<<>>)
         /\ WalkSent(s) = Len(WalkEntries(spys[s].walk[1]))

\* watcher lines 120-136: the walk is joined, spy.watch registers the
\* filesystem watcher, the drain thread is spawned, the loop begins
StartWatch(s) ==
    /\ Alive
    /\ dsp[s] = "walk"
    /\ WalkDone(s)
    /\ dsp' = [dsp EXCEPT ![s] = "loop"]
    /\ UNCHANGED <<schedVars, spys, poolVars, chan, fsleft, watch, supVars>>

\* watcher line 124 when spy.watch returns Err (recommended_watcher,
\* PollWatcher::new or watcher.watch fails, e.g. the input directory does not
\* exist; spy.rs lines 57, 61, 75, 79): the Err is bound to `_watcher` and
\* never looked at. The thread goes on as with a watcher: it spawns the drain
\* and enters its loop. watcher() has returned Ok((handle, tx)) already
\* (line 178), so main has Some for this spy (lines 339-341, no log).
StartWatchFail(s) ==
    /\ Alive
    /\ dsp[s] = "walk"
    /\ WalkDone(s)
    /\ dsp' = [dsp EXCEPT ![s] = "loop"]
    /\ watch' = [watch EXCEPT ![s].cb = "failed"]
    /\ UNCHANGED <<schedVars, spys, poolVars, chan, fsleft, supVars>>

\* files that do not exist when the watcher is registered: one right in the
\* input directory, one in a directory below it
NewFiles ==
    {<<"input", "/", "b", ".", "ps1">>,
     <<"input", "/", "nested", "/", "c", ".", "ps1">>}

\* the number of directories between the input directory and a path, plus one
RECURSIVE Depth(_)
Depth(path) ==
    IF path = <<>> THEN 0
    ELSE (IF Head(path) = "/" THEN 1 ELSE 0) + Depth(Tail(path))

\* watcher.watch(input, spy.recursive) (lines 58-61, 76-79): notify reports
\* what happens right in the directory, and below it when the mode is
\* RecursiveMode::Recursive
Watched(spy, path) == Depth(path) = 1 \/ spy.recursive

\* a file is created under the input of a spy whose watcher is registered;
\* notify (the native or the polling watcher) notes a Create event for it
CreateFile(s, path) ==
    /\ Alive
    /\ dsp[s] = "loop"
    /\ fsleft > 0
    /\ path \notin watch[s].created
    /\ watch' = [watch EXCEPT
            ![s].created = @ \cup {path},
            ![s].pending = IF Watched(spys[s], path)
                           THEN Append(@, [ok |-> TRUE, kind |-> "Create",
                                           paths |-> <<path>>])
                           ELSE @]
    /\ fsleft' = fsleft - 1
    /\ UNCHANGED <<schedVars, spys, poolVars, chan, dsp, supVars>>

\* notify has an error to report to the callback
NotifyError(s) ==
    /\ Alive
    /\ dsp[s] = "loop"
    /\ fsleft > 0
    /\ watch' = [watch EXCEPT ![s].pending =
            Append(@, [ok |-> FALSE, kind |-> "Other", paths |-> <<>>])]
    /\ fsleft' = fsleft - 1
    /\ UNCHANGED <<schedVars, spys, poolVars, chan, dsp, supVars>>

\* a callback that forwards no Create event
WatchCallbackNoCreate(s) ==
    LET res == Head(watch[s].pending) IN
    /\ Alive
    /\ dsp[s] = "loop"
    /\ watch[s].pending # <<>>
    /\ watch' = [watch EXCEPT ![s].pending = Tail(@)]
    /\ chan' = IF res.ok /\ res.kind # "Create"
               THEN [chan EXCEPT ![s] = Append(@,
                        [kind |-> res.kind, paths |-> res.paths, at |-> clock])]
               ELSE chan
    /\ UNCHANGED <<schedVars, spys, poolVars, dsp, fsleft, supVars>>

\* the closure of notify_watch and poll_watch (lines 54-57, 70-73), run by
\* notify with its next result: Ok(event) is sent as Message::Event, Err is
\* logged
WatchCallback(s) ==
    LET res == Head(watch[s].pending) IN
    /\ Alive
    /\ dsp[s] = "loop"
    /\ watch[s].pending # <<>>
    /\ watch' = [watch EXCEPT ![s].pending = Tail(@)]
    /\ chan' = IF res.ok
               THEN [chan EXCEPT ![s] = Append(@,
                        [kind |-> res.kind, paths |-> res.paths, at |-> clock])]
               ELSE chan
    /\ UNCHANGED <<schedVars, spys, poolVars, dsp, fsleft, supVars>>

\* the filesystem changes and the callback is run with notify's event:
\* tx.send(Message::Event(event))
FsEvent(s, kind, paths) ==
    /\ Alive
    /\ dsp[s] = "loop"
    /\ watch[s].cb = "alive"
    /\ fsleft > 0
    /\ chan' = [chan EXCEPT ![s] = Append(@,
            [kind |-> kind, paths |-> paths, at |-> clock])]
    /\ fsleft' = fsleft - 1
    /\ UNCHANGED <<schedVars, spys, poolVars, dsp, watch, supVars>>

\* spy.rs lines 54-57 and 70-73 once the dispatcher has left its loop: rx
\* was moved into `for msg in rx` (watcher line 137) and is dropped when the
\* loop ends, the filesystem watcher lives until the thread returns (line
\* 124, `_watcher`). tx.send then returns Err and the unwrap panics in the
\* thread of notify that runs the callback; nothing reaches a channel.
LateEvent(s) ==
    /\ Alive
    /\ dsp[s] \in {"drain", "panicked"}
    /\ fsleft > 0
    /\ watch[s].cb = "alive"
    /\ watch' = [watch EXCEPT ![s].cb = "panicked"]
    /\ fsleft' = fsleft - 1
    /\ UNCHANGED <<schedVars, spys, poolVars, chan, dsp, supVars>>

NextTask(s) == <<s, 1 + Cardinality({t \in TasksOf(s) : task[t].pc # "idle"})>>

\* the CommandInfo of the worker task for an event and its pattern
\* (watcher lines 150-156: last path, spy.name, input, output, cmd, arg)
WorkerInfo(s, event, pattern) ==
    [name |-> <<ToString(s)>>, event_path |-> LastPath(event),
     event_kind |-> event_kind_to_string(event.kind),
     cmd |-> pattern.cmd, arg |-> pattern.arg,
     input |-> <<"input">>, output |-> <<"output">>]

\* a dispatcher that takes the newest message of its channel
DispatchEventLast(s) ==
    LET event == chan[s][Len(chan[s])] IN
    /\ Alive
    /\ dsp[s] = "loop"
    /\ chan[s] # <<>>
    /\ event # StopMsg
    /\ event.paths # <<>> /\ spys[s].events # None
    /\ chan' = [chan EXCEPT ![s] = SubSeq(@, 1, Len(@) - 1)]
    /\ IF FindPattern(event, spys[s]) # NoPattern
       THEN /\ task' = [task EXCEPT ![NextTask(s)] =
                    [IdleTask EXCEPT !.pc = "queued",
                        !.seen = event.at,
                        !.info = WorkerInfo(s, event,
                                    FindPattern(event, spys[s]))]]
            /\ injq' = Append(injq, NextTask(s))
       ELSE UNCHANGED <<task, injq>>
    /\ UNCHANGED <<clock, dt_cache, mutex_cache, spys, max_threads, par, dsp, fsleft, watch, supVars>>

\* watcher lines 139-165: Message::Event; on a match rayon::spawn the worker.
\* find_pattern unwraps event.paths.last() (line 86) and spy.events (lines
\* 87-90): with no path, or with events None, the dispatcher thread panics,
\* and its unwinding drops rx, the filesystem watcher and tx_execute.
DispatchEvent(s) ==
    LET event == Head(chan[s]) IN
    /\ Alive
    /\ dsp[s] = "loop"
    /\ chan[s] # <<>>
    /\ event # StopMsg
    /\ IF event.paths = <<>> \/ spys[s].events = None
       THEN /\ dsp' = [dsp EXCEPT ![s] = "panicked"]
            /\ chan' = [chan EXCEPT ![s] = <<>>]
            /\ UNCHANGED <<task, injq>>
       ELSE /\ chan' = [chan EXCEPT ![s] = Tail(@)]
            /\ UNCHANGED dsp
            /\ IF FindPattern(event, spys[s]) # NoPattern
               THEN /\ task' = [task EXCEPT ![NextTask(s)] =
                            [IdleTask EXCEPT !.pc = "queued",
                                !.seen = event.at,
                                !.info = WorkerInfo(s, event,
                                            FindPattern(event, spys[s]))]]
                    /\ injq' = Append(injq, NextTask(s))
               ELSE UNCHANGED <<task, injq>>
    /\ UNCHANGED <<clock, dt_cache, mutex_cache, spys, max_threads, par, fsleft, watch, supVars>>

\* a dispatcher that takes Stop and goes on with its loop
DispatchStopSkip(s) ==
    /\ Alive
    /\ dsp[s] = "loop"
    /\ chan[s] # <<>>
    /\ Head(chan[s]) = StopMsg
    /\ chan' = [chan EXCEPT ![s] = Tail(@)]
    /\ dsp' = [dsp EXCEPT ![s] = IF Tail(chan[s]) = <<>> THEN "drain" ELSE "loop"]
    /\ UNCHANGED <<schedVars, spys, poolVars, fsleft, watch, supVars>>

\* watcher lines 166-173: Message::Stop ends the loop; rx is dropped with
\* whatever it still holds, tx_execute is dropped
DispatchStop(s) ==
    /\ Alive
    /\ dsp[s] = "loop"
    /\ chan[s] # <<>>
    /\ Head(chan[s]) = StopMsg
    /\ chan' = [chan EXCEPT ![s] = <<>>]
    /\ dsp' = [dsp EXCEPT ![s] = "drain"]
    /\ UNCHANGED <<schedVars, spys, poolVars, fsleft, watch, supVars>>

\* a free pool thread takes the job at the head of the injector queue and
\* calls execute_command (watcher lines 149-161). A panic in a job of
\* rayon::spawn goes to the pool's panic handler; main registers none (lines
\* 209-213), and the default aborts the process.
PoolRun(t, r) ==
    /\ Alive
    /\ injq # <<>>
    /\ Head(injq) = t
    /\ t \in PipeTasks
    /\ Busy < max_threads
    /\ injq' = Tail(injq)
    /\ Enter(t, task[t].info, spys[t[1]], r)
    /\ exited' = IF r = "panic" THEN "abort" ELSE exited
    /\ UNCHANGED <<clock, dt_cache, mutex_cache, spys, max_threads, par, spyVars>>
    /\ UNCHANGED <<sup, rx_stop, sentinel, init, toml, tera, lk>>

\* watcher line 162: tx_exec_clone.send(status); the pool thread is free
TaskSend(t) ==
    /\ Alive
    /\ t \in PipeTasks
    /\ task[t].pc = "ret"
    /\ task' = [task EXCEPT ![t].pc = "sent"]
    /\ UNCHANGED <<clock, dt_cache, mutex_cache, spys, poolVars, spyVars, supVars>>

\* watcher lines 126-134: the drain thread receives one status, logs
\* "Command success status" for Ok and "Command error status" for Err, and
\* drops it (the record keeps the return site and the event's arrival time)
DrainLog(t) ==
    /\ Alive
    /\ t \in PipeTasks
    /\ task[t].pc = "sent"
    /\ task' = [task EXCEPT ![t] =
            [IdleTask EXCEPT !.pc = "logged", !.ret = task[t].ret,
                !.seen = task[t].seen,
                !.logged = IF ResultOf(t).ok THEN "success" ELSE "error"]]
    /\ UNCHANGED <<clock, dt_cache, mutex_cache, spys, poolVars, spyVars, supVars>>

\* watcher lines 174-175: every sender of the completion channel is dropped
\* and the channel is empty, so the drain thread ends and is joined
DispatcherExit(s) ==
    /\ Alive
    /\ dsp[s] = "drain"
    /\ \A t \in TasksOf(s) : task[t].pc \in {"idle", "logged"}
    /\ dsp' = [dsp EXCEPT ![s] = "exited"]
    /\ UNCHANGED <<schedVars, spys, poolVars, chan, fsleft, watch, supVars>>

\* ------------------------------------------------ main.rs: the supervisor
StopFlg == "stop_flg"
StopForceFlg == "stop_force_flg"

\* the file system reports a touch of a sentinel file as one Modify event or
\* as a Create followed by a Modify
Touch(path, kinds) ==
    /\ Alive
    /\ sentinel.touched[path] < MaxTouch
    /\ sentinel' = [sentinel EXCEPT
            !.q = @ \o [i \in 1..Len(kinds) |-> [kind |-> kinds[i], path |-> path]],
            !.touched[path] = @ + 1]
    /\ UNCHANGED <<schedVars, spys, poolVars, spyVars, sup, rx_stop, exited, init, toml, tera, lk>>

\* main lines 271-281 and 291-301: what the two sentinel callbacks send
SentinelSignals(ev) ==
    (IF ev.kind \in {"Create", "Modify"} /\ ev.path = StopFlg THEN <<"stop">> ELSE <<>>)
    \o (IF ev.kind \in {"Create", "Modify"} /\ ev.path = StopForceFlg
        THEN <<"stop_force">> ELSE <<>>)

\* notify delivers one raw event to the sentinel watchers
SentinelEvent ==
    /\ Alive
    /\ sentinel.q # <<>>
    /\ rx_stop' = rx_stop \o SentinelSignals(Head(sentinel.q))
    /\ sentinel' = [sentinel EXCEPT !.q = Tail(@)]
    /\ UNCHANGED <<schedVars, spys, poolVars, spyVars, sup, exited, init, toml, tera, lk>>

\* the two sentinel watchers, by the signal they send, and their files
SentinelWatchers == {"stop", "stop_force"}
FlgOf(w) == IF w = "stop" THEN StopFlg ELSE StopForceFlg
OtherFile == "other_file"
NoRaw == [w |-> "", kind |-> "", paths |-> <<>>]

\* events of the sentinels' parent directory: no path, one path (a sentinel
\* file or another file), two paths (a rename from or to a sentinel file)
SentinelPathLists ==
    {<<>>, <<StopFlg>>, <<StopForceFlg>>, <<OtherFile>>,
     <<StopFlg, OtherFile>>, <<OtherFile, StopFlg>>, <<OtherFile, StopForceFlg>>}

\* a callback that tests the path alone
SentinelOutcomeAnyKind(event, flg) ==
    IF event.paths = <<>> THEN "panic"
    ELSE IF LastPath(event) = flg THEN "send" ELSE "none"

\* main lines 272-279 and 292-299: the test of a sentinel callback. The
\* kind's string is compared first; only when it is Create or Modify is
\* event.paths.last().unwrap() evaluated, which panics for an empty list.
SentinelOutcome(event, flg) ==
    IF event_kind_to_string(event.kind) \in {"Create", "Modify"}
    THEN IF event.paths = <<>> THEN "panic"
         ELSE IF LastPath(event) = flg THEN "send" ELSE "none"
    ELSE "none"

\* main lines 271-281 and 291-301: notify runs the callback of watcher w
\* with an event of the parent directory
SentinelCallback(w, kind, paths) ==
    LET event == [kind |-> kind, paths |-> paths]
        out == SentinelOutcome(event, FlgOf(w)) IN
    /\ Alive
    /\ fsleft > 0
    /\ sentinel.alive[w]
    /\ fsleft' = fsleft - 1
    /\ rx_stop' = IF out = "send" THEN Append(rx_stop, w) ELSE rx_stop
    /\ sentinel' = [sentinel EXCEPT
            !.alive[w] = (out # "panic"),
            !.last = [w |-> w, kind |-> kind, paths |-> paths]]
    /\ UNCHANGED <<schedVars, spys, poolVars, chan, dsp, watch, sup, exited, init, toml, tera, lk>>

\* a wait loop that starts the graceful stop for either signal
SupRecvGraceful ==
    /\ Alive
    /\ sup = "Running"
    /\ rx_stop # <<>>
    /\ rx_stop' = Tail(rx_stop)
    /\ sup' = "Stopping"
    /\ injq' = Append(injq, ParJob)
    /\ UNCHANGED exited
    /\ UNCHANGED <<schedVars, spys, max_threads, par, spyVars, sentinel, init, toml, tera, lk>>

\* main lines 346-373: the wait loop receives a signal. "stop" leaves the
\* loop, spawns the second receiver and enters results.into_par_iter(), which
\* injects a job into the pool and blocks; "stop_force" exits with code 1.
SupRecv ==
    /\ Alive
    /\ sup = "Running"
    /\ rx_stop # <<>>
    /\ rx_stop' = Tail(rx_stop)
    /\ IF Head(rx_stop) = "stop"
       THEN /\ sup' = "Stopping"
            /\ injq' = Append(injq, ParJob)
            /\ UNCHANGED exited
       ELSE /\ sup' = "ForceExit"
            /\ exited' = "code1"
            /\ UNCHANGED injq
    /\ UNCHANGED <<schedVars, spys, max_threads, par, spyVars, sentinel, init, toml, tera, lk>>

\* a second receiver that acts on "stop_force" alone
ForceRecvOnlyForce ==
    /\ Alive
    /\ sup \in {"Stopping", "Joined"}
    /\ rx_stop # <<>>
    /\ rx_stop' = Tail(rx_stop)
    /\ IF Head(rx_stop) = "stop_force"
       THEN sup' = "ForceExit" /\ exited' = "code1"
       ELSE UNCHANGED <<sup, exited>>
    /\ UNCHANGED <<schedVars, spys, poolVars, spyVars, sentinel, init, toml, tera, lk>>

\* main lines 363-371: the second receiver takes the next signal and exits
ForceRecv ==
    /\ Alive
    /\ sup \in {"Stopping", "Joined"}
    /\ rx_stop # <<>>
    /\ rx_stop' = Tail(rx_stop)
    /\ sup' = "ForceExit"
    /\ exited' = "code1"
    /\ UNCHANGED <<schedVars, spys, poolVars, spyVars, sentinel, init, toml, tera, lk>>

\* main lines 374-375: the closure of par_iter for one spy sends Stop. When
\* the dispatcher has panicked its rx is gone, send returns Err and the
\* unwrap panics in the closure.
SendStop(s) ==
    chan' = IF dsp[s] = "panicked" THEN chan
            ELSE [chan EXCEPT ![s] = Append(@, StopMsg)]
AfterSend(s) == IF dsp[s] = "panicked" THEN "panicked" ELSE "joining"

\* the par_iter items no pool thread has begun
Pending == {s \in Spies : par[s] = "pending"}
LowestPending == CHOOSE s \in Pending : \A r \in Pending : s <= r

\* a free pool thread takes the par_iter job from the injector queue, splits
\* it and runs the closure of the first spy: send Stop, block in join
ParStart ==
    /\ Alive
    /\ injq # <<>>
    /\ Head(injq) = ParJob
    /\ Busy < max_threads
    /\ injq' = Tail(injq)
    /\ par' = [s \in Spies |-> IF s = 1 THEN AfterSend(1) ELSE "pending"]
    /\ SendStop(1)
    /\ UNCHANGED <<schedVars, spys, max_threads, dsp, fsleft, watch, supVars>>

\* a free pool thread runs the closure of the next spy (the splitting thread
\* after its own half, or a thief)
ParTake(s) ==
    /\ Alive
    /\ Pending # {}
    /\ s = LowestPending
    /\ Busy < max_threads
    /\ par' = [par EXCEPT ![s] = AfterSend(s)]
    /\ SendStop(s)
    /\ UNCHANGED <<schedVars, spys, max_threads, injq, dsp, fsleft, watch, supVars>>

\* main lines 376-383: handle.join() returns once the dispatcher has exited
ParJoin(s) ==
    /\ Alive
    /\ par[s] = "joining"
    /\ dsp[s] = "exited"
    /\ par' = [par EXCEPT ![s] = "joined"]
    /\ UNCHANGED <<schedVars, spys, max_threads, injq, spyVars, supVars>>

\* main line 385: par_iter returns when every closure has ended; a panic of
\* a closure is resumed in main, and the process ends with code 101
SupJoined ==
    /\ Alive
    /\ sup = "Stopping"
    /\ \A s \in Spies : par[s] \in {"joined", "panicked"}
    /\ IF \E s \in Spies : par[s] = "panicked"
       THEN sup' = "Panicked" /\ exited' = "code101"
       ELSE sup' = "Joined" /\ UNCHANGED exited
    /\ UNCHANGED <<schedVars, spys, poolVars, spyVars, rx_stop, sentinel, init, toml, tera, lk>>

\* main line 387: Ok(()) is returned, the process exits with code 0
MainReturn ==
    /\ Alive
    /\ sup = "Joined"
    /\ exited' = "code0"
    /\ UNCHANGED <<schedVars, spys, poolVars, spyVars, sup, rx_stop, sentinel, init, toml, tera, lk>>

\* no thread is in execute_command and no guard is held
NoLocks == [t \in HarnessTasks |-> [pc |-> "idle", held |-> {}]]

\* no template is being rendered
NoTera == [x |-> <<>>, enc |-> <<>>, dec |-> None]

\* ---------------------------------------------------------- specifications
InitBare ==
    /\ clock = 0
    /\ dt_cache = [o \in Owners |-> <<>>]
    /\ mutex_cache = {}
    /\ task = [t \in TaskIds |-> IdleTask]
    /\ injq = <<>>
    /\ par = [s \in Spies |-> "none"]
    /\ chan = [s \in Spies |-> <<>>]
    /\ dsp = [s \in Spies |-> "unborn"]
    /\ watch = [s \in Spies |-> [created |-> {}, pending |-> <<>>, cb |-> "alive"]]
    /\ sup = "Initializing"
    /\ rx_stop = <<>>
    /\ sentinel = [q |-> <<>>, touched |-> [f \in {StopFlg, StopForceFlg} |-> 0],
                   alive |-> [w \in SentinelWatchers |-> TRUE], last |-> NoRaw]
    /\ exited = "no"
    /\ toml = <<>>
    /\ lk = NoLocks

\* a configuration without an [init] table
InitQuiet == InitBare /\ init = NoInit /\ tera = NoTera

\* the callers of command.rs's tests: one configuration for all threads
InitSched ==
    /\ InitQuiet
    /\ max_threads = 1
    /\ fsleft = 0
    /\ \E c \in SpyCfgs : spys = [o \in Owners |-> IF o = Harness THEN c ELSE DefaultCfg]

\* the debounce and throttle stages of every invocation
RateStageNext ==
    \/ \E t \in TaskIds : DebounceStamp(t)
    \/ \E t \in TaskIds : DebounceCheck(t)
    \/ \E t \in TaskIds : ThrottleNow(t)
    \/ \E t \in TaskIds : ThrottleCheck(t)

\* every stage, with exec failing at any of its steps
StageNext ==
    \/ RateStageNext
    \/ \E t \in TaskIds : AcquireMutex(t)
    \/ \E t \in TaskIds, fail \in ExecFails : ExecSpawn(t, fail)
    \/ \E t \in TaskIds, status \in {0, 1} : ChildExit(t, status)

NextSched ==
    \/ \E t \in HarnessTasks, ci \in HarnessInfos : Call(t, ci, "ok")
    \/ StageNext
    \/ Tick

SchedSpec == InitSched /\ [][NextSched]_vars

\* ---- the guards of the two locks, statement by statement
\* no thread holds the guard of lock l
Free(l) == \A u \in HarnessTasks : l \notin lk[u].held

\* thread t goes to statement pc holding h; nothing else changes
Go(t, pc, h) ==
    /\ lk' = [lk EXCEPT ![t] = [pc |-> pc, held |-> h]]
    /\ UNCHANGED <<schedVars, spys, poolVars, spyVars, sup, rx_stop, sentinel,
                   exited, init, toml, tera>>

\* the stage after a passed debounce, and after rendering (lines 286, 297)
LkAfterDebounce == IF spys[Harness].throttle > 0 THEN "thr_now" ELSE "acquire"
LkAfterRender == IF spys[Harness].debounce > 0 THEN "deb_now" ELSE LkAfterDebounce

\* whether the effective mutex key of the callers is empty
LkKeyEmpty == EffectiveKey(spys[Harness].mutexkey, HarnessInfo("n1")) = <<>>

\* execute_command is called and has rendered (lines 246-283)
LkCall(t) == lk[t].pc = "idle" /\ Go(t, LkAfterRender, lk[t].held)

\* apply_debounce line 71 and apply_throttle line 99: Instant::now()
LkNow(t) ==
    \/ lk[t].pc = "deb_now" /\ Go(t, "deb_lock", lk[t].held)
    \/ lk[t].pc = "thr_now" /\ Go(t, "thr_lock", lk[t].held)

\* dt_cache.lock().unwrap() of lines 72, 79 and 100: waits for the guard
LkLockCache(t) ==
    /\ Free("dt_cache")
    /\ \/ lk[t].pc = "deb_lock" /\ Go(t, "deb_insert", lk[t].held \cup {"dt_cache"})
       \/ lk[t].pc = "deb_relock" /\ Go(t, "deb_get", lk[t].held \cup {"dt_cache"})
       \/ lk[t].pc = "thr_lock" /\ Go(t, "thr_test", lk[t].held \cup {"dt_cache"})

\* a debounce that goes to sleep with the guard
LkDebounceInsertKeep(t) ==
    lk[t].pc = "deb_insert" /\ Go(t, "deb_sleep", lk[t].held)

\* apply_debounce lines 73-74: insert, drop(lock); the thread sleeps next
LkDebounceInsert(t) ==
    lk[t].pc = "deb_insert" /\ Go(t, "deb_sleep", lk[t].held \ {"dt_cache"})

\* apply_debounce line 77: thread::sleep(threshold) is over
LkWake(t) == lk[t].pc = "deb_sleep" /\ Go(t, "deb_relock", lk[t].held)

\* apply_debounce lines 80-87: get, compare, return; the guard of line 79 is
\* dropped on return
LkDebounceReturn(t, skip) ==
    /\ lk[t].pc = "deb_get"
    /\ Go(t, IF skip THEN "ret" ELSE LkAfterDebounce, lk[t].held \ {"dt_cache"})

\* apply_throttle lines 101-113: test, drop(lock) and return, or insert,
\* drop(lock) and return
LkThrottleReturn(t, skip) ==
    /\ lk[t].pc = "thr_test"
    /\ Go(t, IF skip THEN "ret" ELSE "acquire", lk[t].held \ {"dt_cache"})

\* acquire_mutex lines 119-123 and release_mutex lines 136-140: return at
\* once for an empty key, else mutex_cache.lock().unwrap()
LkLockMutex(t) ==
    \/ /\ lk[t].pc = "acquire"
       /\ IF LkKeyEmpty THEN Go(t, "exec", lk[t].held)
          ELSE Free("mutex_cache")
               /\ Go(t, "acq_test", lk[t].held \cup {"mutex_cache"})
    \/ /\ lk[t].pc = "release"
       /\ IF LkKeyEmpty THEN Go(t, "ret", lk[t].held)
          ELSE Free("mutex_cache")
               /\ Go(t, "rel_remove", lk[t].held \cup {"mutex_cache"})

\* acquire_mutex lines 124-131: contains, insert, return; the guard is
\* dropped on return
LkAcquireReturn(t, got) ==
    /\ lk[t].pc = "acq_test"
    /\ Go(t, IF got THEN "exec" ELSE "ret", lk[t].held \ {"mutex_cache"})

\* exec lines 187-224: the child has run; the deferred release_mutex is next
LkChildExit(t) == lk[t].pc = "exec" /\ Go(t, "release", lk[t].held)

\* release_mutex lines 141-143: remove, return
LkReleaseReturn(t) ==
    lk[t].pc = "rel_remove" /\ Go(t, "ret", lk[t].held \ {"mutex_cache"})

InitLock ==
    /\ InitQuiet
    /\ max_threads = 1
    /\ fsleft = 0
    /\ \E c \in SpyCfgs : spys = [o \in Owners |-> IF o = Harness THEN c ELSE DefaultCfg]

NextLock ==
    \/ \E t \in HarnessTasks : LkCall(t)
    \/ \E t \in HarnessTasks : LkNow(t)
    \/ \E t \in HarnessTasks : LkLockCache(t)
    \/ \E t \in HarnessTasks : LkDebounceInsert(t)
    \/ \E t \in HarnessTasks : LkWake(t)
    \/ \E t \in HarnessTasks, skip \in BOOLEAN : LkDebounceReturn(t, skip)
    \/ \E t \in HarnessTasks, skip \in BOOLEAN : LkThrottleReturn(t, skip)
    \/ \E t \in HarnessTasks : LkLockMutex(t)
    \/ \E t \in HarnessTasks, got \in BOOLEAN : LkAcquireReturn(t, got)
    \/ \E t \in HarnessTasks : LkChildExit(t)
    \/ \E t \in HarnessTasks : LkReleaseReturn(t)

LockSpec == InitLock /\ [][NextLock]_vars

\* the same callers with a short debounce and a throttle window longer than
\* it, so that an invocation can pass both stages within MaxTime
LimitCfgs ==
    [debounce : {0, DebounceMs - 1}, throttle : {ThrottleMs - 1},
     limitkey : {TmplEmpty, TmplShared}, mutexkey : {TmplBlank},
     walk : {None}, events : {Some(SpyEvents)}, patterns : {SpyPatterns}]

InitLimit ==
    /\ InitQuiet
    /\ max_threads = 1
    /\ fsleft = 0
    /\ \E c \in LimitCfgs : spys = [o \in Owners |-> IF o = Harness THEN c ELSE DefaultCfg]

LimitSpec == InitLimit /\ [][NextSched]_vars

\* the mutex stage and exec, which succeeds or fails at spawn
RunStageNext ==
    \/ \E t \in TaskIds : AcquireMutex(t)
    \/ \E t \in TaskIds, fail \in {"none", "spawn"} : ExecSpawn(t, fail)
    \/ \E t \in TaskIds, status \in {0, 1} : ChildExit(t, status)

\* the pipeline of running spies with rate limits configured
PipeCfgs == [debounce : Debounces, throttle : Throttles, limitkey : {TmplEmpty},
             mutexkey : {TmplEmpty}, walk : {None},
             events : {Some(SpyEvents)}, patterns : {SpyPatterns}]

InitPipe ==
    /\ InitQuiet
    /\ max_threads \in 1..MaxPool
    /\ fsleft = MaxEvents
    /\ \E c \in PipeCfgs : spys = [o \in Owners |-> c]

SpyNext ==
    \/ \E s \in Spies : StartWatch(s)
    \/ \E s \in Spies, kind \in EventKinds : FsEvent(s, kind, <<EventPath>>)
    \/ \E s \in Spies : DispatchEvent(s)
    \/ \E t \in PipeTasks : PoolRun(t, "ok")
    \/ \E t \in PipeTasks : TaskSend(t)
    \/ \E t \in PipeTasks : DrainLog(t)

NextPipe ==
    \/ SupStart
    \/ SpyNext
    \/ RateStageNext
    \/ RunStageNext
    \/ Tick

PipeSpec == InitPipe /\ [][NextPipe]_vars

\* the whole program with no rate limit configured: start, run, shut down
RunCfgs == [debounce : {0}, throttle : {0}, limitkey : {TmplEmpty},
            mutexkey : {TmplEmpty}, walk : {None, Some(WalkTop)},
            events : {Some(SpyEvents)}, patterns : {SpyPatterns}]

\* the synthetic events of the spies' walks; a run has at most MaxEvents
\* events, those of the walks and those of the watchers
WalkCount(c) == IF c.walk = None THEN 0 ELSE NSpies * Len(WalkEntries(c.walk[1]))

Init ==
    /\ InitQuiet
    /\ clock = 0
    /\ max_threads \in 1..MaxPool
    /\ \E c \in RunCfgs :
          /\ spys = [o \in Owners |-> c]
          /\ fsleft = MaxEvents - WalkCount(c)

ShutdownNext ==
    \/ \E s \in Spies : WalkEmit(s)
    \/ \E s \in Spies : DispatchStop(s)
    \/ \E s \in Spies : DispatcherExit(s)
    \/ \E kinds \in {<<"Modify">>, <<"Create", "Modify">>} : Touch(StopFlg, kinds)
    \/ \E kinds \in {<<"Modify">>, <<"Create", "Modify">>} : Touch(StopForceFlg, kinds)
    \/ SentinelEvent
    \/ SupRecv
    \/ ForceRecv
    \/ ParStart
    \/ \E s \in Spies : ParTake(s)
    \/ \E s \in Spies : ParJoin(s)
    \/ SupJoined
    \/ MainReturn

Next ==
    \/ SupStart
    \/ SpyNext
    \/ RunStageNext
    \/ ShutdownNext

Spec == Init /\ [][Next]_vars

\* every step of the program's own threads; the environment's steps (a
\* touch of a sentinel file, a filesystem event, a walk entry) are the others
ProgramNext ==
    \/ SupStart
    \/ \E s \in Spies : StartWatch(s)
    \/ \E s \in Spies : DispatchEvent(s)
    \/ \E s \in Spies : DispatchStop(s)
    \/ \E s \in Spies : DispatcherExit(s)
    \/ \E t \in PipeTasks : PoolRun(t, "ok")
    \/ \E t \in PipeTasks : TaskSend(t)
    \/ \E t \in PipeTasks : DrainLog(t)
    \/ RunStageNext
    \/ SentinelEvent
    \/ SupRecv
    \/ ForceRecv
    \/ ParStart
    \/ \E s \in Spies : ParTake(s)
    \/ \E s \in Spies : ParJoin(s)
    \/ SupJoined
    \/ MainReturn

\* every thread that can take a step eventually takes one, and every child
\* process terminates
LiveSpec == Spec /\ WF_vars(ProgramNext)

\* the whole program while the filesystem goes on changing after a dispatcher
\* has taken Stop: the watcher of a spy is dropped only when its dispatcher
\* thread returns
NextStop ==
    \/ Next
    \/ \E s \in Spies : LateEvent(s)

StopSpec == Init /\ [][NextStop]_vars

\* the sentinel watchers with every event of their directory, while main
\* starts the spies and waits for a signal
InitSentinel ==
    /\ InitQuiet
    /\ max_threads = MaxPool
    /\ fsleft = MaxEvents + 1
    /\ spys = [o \in Owners |-> DefaultCfg]

NextSentinel ==
    \/ \E w \in SentinelWatchers, kind \in RawKinds, paths \in SentinelPathLists :
            SentinelCallback(w, kind, paths)
    \/ SupStart
    \/ SupRecv
    \/ ForceRecv

SentinelSpec == InitSentinel /\ [][NextSentinel]_vars

\* the program from start to a graceful stop, with spies whose filesystem
\* watcher cannot be set up
NextSetup ==
    \/ SupStart
    \/ \E s \in Spies : StartWatchFail(s)
    \/ SpyNext
    \/ RunStageNext
    \/ \E s \in Spies : DispatchStop(s)
    \/ \E s \in Spies : DispatcherExit(s)
    \/ Touch(StopFlg, <<"Modify">>)
    \/ SentinelEvent
    \/ SupRecv
    \/ ParStart
    \/ \E s \in Spies : ParTake(s)
    \/ \E s \in Spies : ParJoin(s)
    \/ SupJoined
    \/ MainReturn

SetupSpec == InitPipe /\ [][NextSetup]_vars

\* the start sequence with and without an [init] table, whose command
\* renders or not and runs or fails, up to the dispatch of the first events
InitCfgs == [present : BOOLEAN, error_stop : BOOLEAN]

InitStart ==
    /\ InitBare
    /\ tera = NoTera
    /\ init \in InitCfgs
    /\ max_threads = MaxPool
    /\ \E c \in RunCfgs :
          /\ spys = [o \in Owners |-> c]
          /\ fsleft = MaxEvents - WalkCount(c)

NextStart ==
    \/ \E r \in RenderOutcomes : InitRun(r)
    \/ ThrottleCheck(InitTask)
    \/ AcquireMutex(InitTask)
    \/ \E fail \in ExecFails : ExecSpawn(InitTask, fail)
    \/ \E status \in {0, 1} : ChildExit(InitTask, status)
    \/ InitAbort
    \/ SupStart
    \/ \E s \in Spies : WalkEmit(s)
    \/ \E s \in Spies : StartWatch(s)
    \/ \E s \in Spies, kind \in EventKinds : FsEvent(s, kind, <<EventPath>>)
    \/ \E s \in Spies : DispatchEvent(s)
    \/ Tick

StartSpec == InitStart /\ [][NextStart]_vars

\* the startup walks of spies with every depth range and with and without a
\* pattern, whose events are a list, an empty list or None
Walks ==
    [min_depth : {None, Some(1)}, max_depth : {None, Some(2)},
     pattern : {None, Some(ReExt("ps1"))}]
WalkCfgs ==
    [debounce : {0}, throttle : {0}, limitkey : {TmplEmpty},
     mutexkey : {TmplBlank}, walk : {Some(w) : w \in Walks},
     events : {Some(SpyEvents), Some(<<"Remove">>), Some(<<"Any">>), Some(<<>>), None},
     patterns : {SpyPatterns}]

InitWalk ==
    /\ InitQuiet
    /\ max_threads = MaxPool
    /\ fsleft = 0
    /\ \E c \in WalkCfgs : spys = [o \in Owners |-> c]

NextWalk ==
    \/ SupStart
    \/ \E s \in Spies : WalkEmit(s)
    \/ \E s \in Spies : WalkPanic(s)
    \/ \E s \in Spies : StartWatch(s)

WalkSpec == InitWalk /\ [][NextWalk]_vars

\* str::as_bytes: the UTF-8 encoding of a string, given as its code points
RECURSIVE as_bytes(_)
as_bytes(str) ==
    IF str = <<>> THEN <<>>
    ELSE LET c == Head(str) IN
         (CASE c < 128 -> <<c>>
            [] c >= 128 /\ c < 2048 -> <<192 + (c \div 64), 128 + (c % 64)>>
            [] c >= 2048 /\ c < 65536 ->
                    <<224 + (c \div 4096), 128 + ((c \div 64) % 64), 128 + (c % 64)>>
            [] OTHER ->
                    <<240 + (c \div 262144), 128 + ((c \div 4096) % 64),
                      128 + ((c \div 64) % 64), 128 + (c % 64)>>)
         \o as_bytes(Tail(str))

Continuation(b) == b >= 128 /\ b < 192

\* String::from_utf8: Ok with the code points, or Err for bytes that are not
\* the UTF-8 encoding of a string
RECURSIVE from_utf8(_)
from_utf8(bytes) ==
    IF bytes = <<>> THEN [ok |-> TRUE, value |-> <<>>]
    ELSE
    LET b == Head(bytes)
        n == CASE b < 128 -> 1
               [] b >= 192 /\ b < 224 -> 2
               [] b >= 224 /\ b < 240 -> 3
               [] b >= 240 /\ b < 248 -> 4
               [] OTHER -> 0
        Err == [ok |-> FALSE, value |-> <<>>]
    IN  IF n = 0 \/ Len(bytes) < n THEN Err
        ELSE IF \E i \in 2..n : ~Continuation(bytes[i]) THEN Err
        ELSE
        LET c == CASE n = 1 -> b
                   [] n = 2 -> (b - 192) * 64 + (bytes[2] - 128)
                   [] n = 3 -> (b - 224) * 4096 + (bytes[2] - 128) * 64
                               + (bytes[3] - 128)
                   [] OTHER -> (b - 240) * 262144 + (bytes[2] - 128) * 4096
                               + (bytes[3] - 128) * 64 + (bytes[4] - 128)
            least == CASE n = 1 -> 0 [] n = 2 -> 128 [] n = 3 -> 2048
                       [] OTHER -> 65536
            rest == from_utf8(SubSeq(bytes, n + 1, Len(bytes)))
        IN  IF c < least \/ c > 1114111 \/ (c >= 55296 /\ c < 57344) THEN Err
            ELSE IF ~rest.ok THEN Err
            ELSE [ok |-> TRUE, value |-> <<c>> \o rest.value]

\* the fixed key and nonce (lines 32-33), as numbers
KEY == 97
NONCE == 117

\* Aes256GcmSiv comes from the aes_gcm_siv crate. The model keeps the
\* construction of the mode with byte arithmetic in place of AES and POLYVAL:
\* a tag computed from key, nonce and plaintext; a keystream derived from
\* key and tag and added to the plaintext; the tag appended.
TagLen == 2

RECURSIVE Polyval(_, _)
Polyval(h, bytes) ==
    IF bytes = <<>> THEN h
    ELSE Polyval((h * 31 + Head(bytes) + 1) % 65536, Tail(bytes))

Tag(key, nonce, plaintext) ==
    LET h == Polyval((key * 256 + nonce) % 65536, plaintext)
    IN  <<h \div 256, h % 256>>

Keystream(key, tag, i) == (key + 3 * tag[1] + 5 * tag[2] + 7 * i) % 256

\* cipher.encrypt(nonce, bytes)
encrypt(key, nonce, plaintext) ==
    LET tag == Tag(key, nonce, plaintext)
    IN  [i \in 1..Len(plaintext) |->
            (plaintext[i] + Keystream(key, tag, i)) % 256] \o tag

\* cipher.decrypt(nonce, bytes): Err when the text is shorter than a tag or
\* the tag is not the one of the plaintext
decrypt(key, nonce, ciphertext) ==
    IF Len(ciphertext) < TagLen THEN [ok |-> FALSE, value |-> <<>>]
    ELSE
    LET n == Len(ciphertext) - TagLen
        tag == SubSeq(ciphertext, n + 1, n + TagLen)
        plaintext == [i \in 1..n |->
                        (ciphertext[i] + 256 - Keystream(key, tag, i)) % 256]
    IN  IF Tag(key, nonce, plaintext) = tag
        THEN [ok |-> TRUE, value |-> plaintext]
        ELSE [ok |-> FALSE, value |-> <<>>]

\* general_purpose::STANDARD: a text is a sequence of the alphabet's indexes
\* 0..63, with Pad for '='
Pad == 64

RECURSIVE encode(_)
encode(bytes) ==
    CASE Len(bytes) = 0 -> <<>>
      [] Len(bytes) = 1 ->
            <<bytes[1] \div 4, (bytes[1] % 4) * 16, Pad, Pad>>
      [] Len(bytes) = 2 ->
            <<bytes[1] \div 4, (bytes[1] % 4) * 16 + (bytes[2] \div 16),
              (bytes[2] % 16) * 4, Pad>>
      [] OTHER ->
            <<bytes[1] \div 4, (bytes[1] % 4) * 16 + (bytes[2] \div 16),
              (bytes[2] % 16) * 4 + (bytes[3] \div 64), bytes[3] % 64>>
            \o encode(SubSeq(bytes, 4, Len(bytes)))

\* STANDARD.decode: Err for a text that is no canonical padded base64
RECURSIVE decode(_)
decode(text) ==
    LET Err == [ok |-> FALSE, value |-> <<>>] IN
    IF text = <<>> THEN [ok |-> TRUE, value |-> <<>>]
    ELSE IF Len(text) < 4 \/ text[1] = Pad \/ text[2] = Pad THEN Err
    ELSE IF text[3] = Pad
         THEN IF text[4] = Pad /\ Len(text) = 4 /\ text[2] % 16 = 0
              THEN [ok |-> TRUE, value |-> <<text[1] * 4 + (text[2] \div 16)>>]
              ELSE Err
    ELSE IF text[4] = Pad
         THEN IF Len(text) = 4 /\ text[3] % 4 = 0
              THEN [ok |-> TRUE,
                    value |-> <<text[1] * 4 + (text[2] \div 16),
                                (text[2] % 16) * 16 + (text[3] \div 4)>>]
              ELSE Err
    ELSE LET rest == decode(SubSeq(text, 5, Len(text))) IN
         IF ~rest.ok THEN Err
         ELSE [ok |-> TRUE,
               value |-> <<text[1] * 4 + (text[2] \div 16),
                           (text[2] % 16) * 16 + (text[3] \div 4),
                           (text[3] % 4) * 64 + text[4]>> \o rest.value]

\* an enc that appends no tag
enc_functionNoTag(arg) ==
    LET ciphertext == encrypt(KEY, NONCE, as_bytes(arg))
    IN  encode(SubSeq(ciphertext, 1, Len(ciphertext) - TagLen))

\* enc_function: the base64 text of the ciphertext of arg's bytes
enc_function(arg) == encode(encrypt(KEY, NONCE, as_bytes(arg)))

\* dec_function: each unwrap panics on an Err
dec_function(arg) ==
    LET bytes == decode(arg)
        plaintext == IF bytes.ok THEN decrypt(KEY, NONCE, bytes.value) ELSE bytes
    IN  IF plaintext.ok THEN from_utf8(plaintext.value) ELSE plaintext

\* the template calls enc(arg=x)
EncCall ==
    /\ Len(tera.enc) < 2
    /\ tera' = [tera EXCEPT !.enc = Append(@, enc_function(tera.x))]
    /\ UNCHANGED <<schedVars, spys, poolVars, spyVars, sup, rx_stop, sentinel,
                   exited, init, toml, lk>>

\* the template calls dec(arg=enc(arg=x))
DecCall ==
    /\ tera.enc # <<>>
    /\ tera.dec = None
    /\ tera' = [tera EXCEPT !.dec = Some(dec_function(tera.enc[1]))]
    /\ UNCHANGED <<schedVars, spys, poolVars, spyVars, sup, rx_stop, sentinel,
                   exited, init, toml, lk>>

\* strings of one-, two-, three- and four-byte characters: A, e acute,
\* hiragana a, an emoji
Chars == {65, 233, 12354, 128512}
Strings == UNION {[1..n -> Chars] : n \in 0..MaxStr}

InitTera ==
    /\ InitBare
    /\ init = NoInit
    /\ max_threads = MaxPool
    /\ fsleft = 0
    /\ spys = [o \in Owners |-> DefaultCfg]
    /\ \E x \in Strings : tera = [NoTera EXCEPT !.x = x]

NextTera ==
    \/ EncCall
    \/ DecCall
    \/ Tick

TeraSpec == InitTera /\ [][NextTera]_vars

\* Spy::default()
SpyDefault ==
    [name |-> "default", events |-> Some(SpyEvents), recursive |-> TRUE,
     throttle |-> Some(0), limitkey |-> Some(TmplEmpty),
     patterns |-> Some(SpyPatterns)]

\* default_recursive(): what serde gives a spy that states no `recursive`
default_recursive == FALSE

\* toml::from_str for one [[spys]] entry: the Option fields are None when
\* omitted, `recursive` is default_recursive() when omitted; an events list
\* passes is_valid_event_kind when each of its tokens is a kind's name, so an
\* empty list passes
Deserialize(entry) ==
    [entry EXCEPT !.recursive = IF @ = None THEN default_recursive ELSE @[1]]

\* Option::or
Or(a, b) == IF a # None THEN a ELSE b

\* the entry named "default" (the first, with find), or Spy::default()
default_spy(list) ==
    IF \E i \in DOMAIN list : list[i].name = "default"
    THEN list[CHOOSE i \in DOMAIN list :
                /\ list[i].name = "default"
                /\ \A j \in DOMAIN list : list[j].name = "default" => i <= j]
    ELSE SpyDefault

\* Settings::rebuild
rebuild(list) ==
    LET d == default_spy(list) IN
    [i \in DOMAIN list |->
        IF list[i].name = "default" THEN list[i]
        ELSE [name |-> list[i].name,
              events |-> Or(list[i].events, d.events),
              recursive |-> list[i].recursive,
              throttle |-> Or(list[i].throttle, d.throttle),
              limitkey |-> Or(list[i].limitkey, d.limitkey),
              patterns |-> Or(list[i].patterns, d.patterns)]]

\* main: Settings::new(&cli.config, ..) and, when it is Ok, s.rebuild()
LoadSettings ==
    /\ sup = "Loading"
    /\ sup' = "Initializing"
    /\ spys' = rebuild([i \in DOMAIN toml |-> Deserialize(toml[i])])
    /\ UNCHANGED <<schedVars, poolVars, spyVars, rx_stop, sentinel, exited,
                   init, toml, tera, lk>>

\* [[spys]] entries: each field stated or omitted, the lists empty or not
TomlEntries(names) ==
    [name : names,
     events : {None, Some(<<>>), Some(<<"Remove">>)},
     recursive : {None, Some(TRUE), Some(FALSE)},
     throttle : {None, Some(ThrottleMs)},
     limitkey : {None, Some(TmplShared)},
     patterns : {None, Some(<<>>), Some(<<PatCmd>>)}]

\* a config file of two entries, the first of which may be the "default" one
InitRebuild ==
    /\ clock = 0
    /\ dt_cache = [o \in Owners |-> <<>>]
    /\ mutex_cache = {}
    /\ task = [t \in TaskIds |-> IdleTask]
    /\ max_threads = MaxPool
    /\ injq = <<>>
    /\ par = [s \in Spies |-> "none"]
    /\ chan = [s \in Spies |-> <<>>]
    /\ dsp = [s \in Spies |-> "unborn"]
    /\ fsleft = 0
    /\ watch = [s \in Spies |-> [created |-> {}, pending |-> <<>>, cb |-> "alive"]]
    /\ sup = "Loading"
    /\ rx_stop = <<>>
    /\ sentinel = [q |-> <<>>, touched |-> [f \in {StopFlg, StopForceFlg} |-> 0],
                   alive |-> [w \in SentinelWatchers |-> TRUE], last |-> NoRaw]
    /\ exited = "no"
    /\ init = NoInit
    /\ tera = NoTera
    /\ lk = NoLocks
    /\ spys = <<>>
    /\ \E first \in TomlEntries({"default", "b"}), second \in TomlEntries({"a"}) :
            toml = <<first, second>>

NextRebuild == LoadSettings

RebuildSpec == InitRebuild /\ [][NextRebuild]_vars

\* watchers of recursive and of non-recursive spies, native or polling, while
\* files are created under the input; nothing is taken from the channels
WatchCfgs ==
    [debounce : {0}, throttle : {0}, limitkey : {TmplEmpty},
     mutexkey : {TmplBlank}, walk : {None}, events : {Some(SpyEvents)},
     patterns : {SpyPatterns}, recursive : BOOLEAN, poll : {None, Some(100)}]

InitWatch ==
    /\ InitQuiet
    /\ max_threads = MaxPool
    /\ fsleft = MaxEvents + 1
    /\ spys \in [Owners -> WatchCfgs]

NextWatch ==
    \/ SupStart
    \/ \E s \in Spies : StartWatch(s)
    \/ \E s \in Spies, path \in NewFiles : CreateFile(s, path)
    \/ \E s \in Spies : NotifyError(s)
    \/ \E s \in Spies : WatchCallback(s)

\* notify runs the callback with every result it has
WatchSpec == InitWatch /\ [][NextWatch]_vars /\ \A s \in Spies : WF_vars(WatchCallback(s))

\* callers whose CommandInfo differ in input and output only; the text
\* ", output: " is the piece Display writes between the two
KeyInfo(input, output) ==
    [name |-> <<"n1">>, event_path |-> <<"event">>, event_kind |-> "Create",
     cmd |-> <<"cmd">>, arg |-> << <<"arg">> >>, input |-> input, output |-> output]
KeyInfos ==
    {KeyInfo(<<"i">>, <<"p">>),
     KeyInfo(<<"i">>, <<"o", ", output: ", "p">>),
     KeyInfo(<<"i", ", output: ", "o">>, <<"p">>)}

\* rate limits keyed by the default key, the mutex disabled
KeyCfgs == [debounce : Debounces, throttle : Throttles, limitkey : {TmplEmpty},
            mutexkey : {TmplBlank}, walk : {None},
            events : {Some(SpyEvents)}, patterns : {SpyPatterns}]

InitKey ==
    /\ InitQuiet
    /\ max_threads = 1
    /\ fsleft = 0
    /\ \E c \in KeyCfgs : spys = [o \in Owners |-> IF o = Harness THEN c ELSE DefaultCfg]

NextKey ==
    \/ \E t \in HarnessTasks, ci \in KeyInfos : Call(t, ci, "ok")
    \/ StageNext
    \/ Tick

KeySpec == InitKey /\ [][NextKey]_vars

\* events of every kind with no, one or two paths, for spies with several
\* events lists and patterns lists; no rate limit, the mutex disabled
PathCmd == <<"b", ".", "cmd">>
PathTxt == <<"c", ".", "txt">>
MatchPathLists ==
    {<<>>, <<EventPath>>, <<PathCmd>>, <<PathTxt>>, <<PathCmd, EventPath>>}
MatchCfgs ==
    [debounce : {0}, throttle : {0}, limitkey : {TmplEmpty},
     mutexkey : {TmplBlank}, walk : {None},
     events : {Some(SpyEvents), Some(<<"Remove", "Access">>), Some(<<"Any">>)},
     patterns : {<<PatCmd, PatPs1>>, <<PatAny, PatPs1>>, <<PatPs1, PatAny>>}]

InitMatch ==
    /\ InitQuiet
    /\ max_threads = MaxPool
    /\ fsleft = MaxEvents
    /\ \E c \in MatchCfgs : spys = [o \in Owners |-> c]

NextMatch ==
    \/ SupStart
    \/ \E s \in Spies : StartWatch(s)
    \/ \E s \in Spies, kind \in RawKinds, paths \in MatchPathLists :
            FsEvent(s, kind, paths)
    \/ \E s \in Spies : DispatchEvent(s)
    \/ \E t \in PipeTasks : PoolRun(t, "ok")

MatchSpec == InitMatch /\ [][NextMatch]_vars

\* the pipeline with workers that fail: rendering and exec at any step
InitFault ==
    /\ InitQuiet
    /\ max_threads \in 1..MaxPool
    /\ fsleft = MaxEvents
    /\ spys = [o \in Owners |-> DefaultCfg]

NextFault ==
    \/ SupStart
    \/ \E s \in Spies : StartWatch(s)
    \/ \E s \in Spies : FsEvent(s, "Create", <<EventPath>>)
    \/ \E s \in Spies : DispatchEvent(s)
    \/ \E t \in PipeTasks, r \in RenderOutcomes : PoolRun(t, r)
    \/ \E t \in PipeTasks : TaskSend(t)
    \/ \E t \in PipeTasks : DrainLog(t)
    \/ \E t \in TaskIds : AcquireMutex(t)
    \/ \E t \in TaskIds, fail \in ExecFails : ExecSpawn(t, fail)
    \/ \E t \in TaskIds, status \in {0, 1} : ChildExit(t, status)

FaultSpec == InitFault /\ [][NextFault]_vars

\* two spies whose limit key template renders the same key; the mutex disabled
SharedCfgs == [debounce : Debounces, throttle : Throttles, limitkey : {TmplShared},
               mutexkey : {TmplBlank}, walk : {None},
               events : {Some(SpyEvents)}, patterns : {SpyPatterns}]

InitShared ==
    /\ InitQuiet
    /\ max_threads = MaxPool
    /\ fsleft = MaxEvents
    /\ \E c \in SharedCfgs : spys = [o \in Owners |-> c]

SharedSpec == InitShared /\ [][NextPipe]_vars

\* spies whose limit key template is the event's path, throttled or
\* debounced, with events of two files
EventKeyCfgs ==
    [debounce : Debounces, throttle : Throttles, limitkey : {TmplEventPath},
     mutexkey : {TmplBlank}, walk : {None},
     events : {Some(SpyEvents)}, patterns : {SpyPatterns}]

InitEventKey ==
    /\ InitQuiet
    /\ max_threads = MaxPool
    /\ fsleft = MaxEvents
    /\ \E c \in EventKeyCfgs : spys = [o \in Owners |-> c]

NextEventKey ==
    \/ SupStart
    \/ \E s \in Spies : StartWatch(s)
    \/ \E s \in Spies, path \in {EventPath, PathCmd} : FsEvent(s, "Create", <<path>>)
    \/ \E s \in Spies : DispatchEvent(s)
    \/ \E t \in PipeTasks : PoolRun(t, "ok")
    \/ \E t \in PipeTasks : TaskSend(t)
    \/ \E t \in PipeTasks : DrainLog(t)
    \/ RateStageNext
    \/ \E t \in PipeTasks : AcquireMutex(t)
    \/ \E t \in PipeTasks : ExecSpawn(t, "none")
    \/ \E t \in PipeTasks : ChildExit(t, 0)
    \/ Tick

EventKeySpec == InitEventKey /\ [][NextEventKey]_vars

\* the sentinel files are touched while the init command runs, while the
\* spies are started and while main waits; the main thread blocked in
\* rx_stop.recv() is woken when a message is queued
InitSignal ==
    /\ InitBare
    /\ tera = NoTera
    /\ init \in InitCfgs
    /\ max_threads = MaxPool
    /\ fsleft = 0
    /\ spys = [o \in Owners |-> DefaultCfg]

NextSignal ==
    \/ \E r \in RenderOutcomes : InitRun(r)
    \/ ThrottleCheck(InitTask)
    \/ AcquireMutex(InitTask)
    \/ \E fail \in {"none", "spawn"} : ExecSpawn(InitTask, fail)
    \/ \E status \in {0, 1} : ChildExit(InitTask, status)
    \/ InitAbort
    \/ SupStart
    \/ \E f \in {StopFlg, StopForceFlg}, kinds \in {<<"Modify">>, <<"Create", "Modify">>} :
            Touch(f, kinds)
    \/ SentinelEvent
    \/ SupRecv
    \/ ForceRecv

SignalSpec == InitSignal /\ [][NextSignal]_vars /\ WF_vars(SupRecv)

\* ------------------------------------------------- scheduler-level claims
TasksOfKey(k) == {t \in TaskIds : task[t].pc # "idle" /\ task[t].mutexkey = k}
HeldKeys == {task[t].mutexkey : t \in {u \in TaskIds : InRegion(u) /\ task[u].mutexkey # <<>>}}
AllReturned(T) == \A t \in T : Returned(t)
OneLimitKey(T) == \A t, u \in T : task[t].limitkey = task[u].limitkey
NotSkipped(T) == {t \in T : Returned(t) /\ ~Skipped(t)}

\* C1: for every non-empty mutex key, at most one invocation is between its
\* successful acquire_mutex and its release_mutex at any instant.
C1_MutualExclusion ==
    \A t, u \in TaskIds :
        (InRegion(t) /\ InRegion(u) /\ task[t].mutexkey # <<>>
            /\ task[t].mutexkey = task[u].mutexkey) => t = u

\* C1 happens: one invocation holds a non-empty key while another one with
\* the same key has come to the mutex stage and was turned away.
C1_Witness ==
    \E t, u \in TaskIds :
        /\ InRegion(t) /\ task[t].mutexkey # <<>>
        /\ task[u].mutexkey = task[t].mutexkey
        /\ task[u].pc = "ret" /\ task[u].ret = "mutex_skip"

\* Invocations whose stage-entry clock readings lie within one window w
WithinWindow(T, w) == \A t, u \in T : DurationSince(task[t].now, task[u].now) < w

\* C2: throttle W > 0, debounce 0: of N invocations that share one limit key
\* and read their clock within W of the first, exactly one returns
\* skipped = false (its stamp is the one in the cache), the others skipped.
C2_ThrottleOnePerWindow ==
    (/\ spys[Harness].throttle > 0 /\ spys[Harness].debounce = 0
     /\ AllReturned(HarnessTasks) /\ OneLimitKey(HarnessTasks)
     /\ WithinWindow(HarnessTasks, spys[Harness].throttle))
    => \E t \in HarnessTasks :
          /\ NotSkipped(HarnessTasks) = {t}
          /\ dt_cache[Harness][task[t].limitkey] = task[t].now

\* C2 happens in the interleaving the claim names: the invocation that
\* proceeded read its clock after a skipped one, yet took the lock first.
C2_Witness ==
    /\ spys[Harness].throttle > 0 /\ spys[Harness].debounce = 0
    /\ AllReturned(HarnessTasks) /\ OneLimitKey(HarnessTasks)
    /\ WithinWindow(HarnessTasks, spys[Harness].throttle)
    /\ \E t, u \in HarnessTasks :
          /\ ~Skipped(t) /\ task[u].ret = "throttle_skip"
          /\ task[u].now < task[t].now

\* start order of invocations: by clock reading, ties by thread index
Before(u, t) == task[u].now < task[t].now \/ (task[u].now = task[t].now /\ u[2] < t[2])
GapsBelow(T, d) ==
    \A t \in T : (\E u \in T : Before(u, t))
        => \E u \in T : Before(u, t) /\ task[t].now - task[u].now < d

DistinctNow(T) == \A t, u \in T : t # u => task[t].now # task[u].now

\* C3: debounce D > 0, throttle 0: of N invocations on threads of their own
\* that share one limit key and start (at distinct instants) with consecutive
\* gaps below D, exactly one returns skipped = false, and it is the last one
\* started.
C3_DebounceLastOnly ==
    (/\ spys[Harness].debounce > 0 /\ spys[Harness].throttle = 0
     /\ AllReturned(HarnessTasks) /\ OneLimitKey(HarnessTasks)
     /\ DistinctNow(HarnessTasks)
     /\ GapsBelow(HarnessTasks, spys[Harness].debounce))
    => \E t \in HarnessTasks :
          /\ NotSkipped(HarnessTasks) = {t}
          /\ \A u \in HarnessTasks : u # t => Before(u, t)

\* C5: an invocation at the mutex stage never waits: acquire_mutex can always
\* be taken, and when the key is held it returns skipped = true at once.
C5_MutexNeverBlocks ==
    /\ [](\A t \in TaskIds : task[t].pc = "mutex" /\ Alive => ENABLED AcquireMutex(t))
    /\ [][\A t \in TaskIds :
            (/\ task[t].pc = "mutex" /\ task[t].mutexkey # <<>>
             /\ task[t].mutexkey \in mutex_cache
             /\ task'[t] # task[t])
            => (task'[t].pc = "ret" /\ task'[t].ret = "mutex_skip"
                /\ mutex_cache' = mutex_cache)]_vars

\* C5 happens: with debounce = throttle = 0 all invocations share a non-empty
\* key, one is executing and every other one has returned skipped.
C5_Witness ==
    /\ spys[Harness].debounce = 0 /\ spys[Harness].throttle = 0
    /\ \E t \in HarnessTasks :
          /\ task[t].pc = "wait" /\ task[t].mutexkey # <<>>
          /\ \A u \in HarnessTasks \ {t} :
                /\ task[u].mutexkey = task[t].mutexkey
                /\ task[u].pc = "ret" /\ task[u].ret = "mutex_skip"

\* C6: the mutex set is exactly the set of non-empty keys whose acquiring
\* invocation is inside the protected region; a key leaves the set only in
\* the step in which its holder leaves exec (on success, non-zero status or
\* error); the set is empty iff no keyed protected region is executing.
C6_MutexAccounting ==
    /\ [](mutex_cache = HeldKeys)
    /\ [][\A k \in mutex_cache \ mutex_cache' :
            \E t \in TaskIds :
                /\ InRegion(t) /\ task[t].mutexkey = k
                /\ task'[t].pc = "ret"
                /\ task'[t].ret \in {"exec_ok", "exec_err"}]_vars

\* C6 happens: a keyed invocation left exec by an error, another one by a
\* non-zero status, and the set is empty again.
C6_Witness ==
    /\ mutex_cache = {}
    /\ \E t, u \in TaskIds :
          /\ task[t].mutexkey # <<>> /\ task[t].pc = "ret" /\ task[t].ret = "exec_err"
          /\ task[u].mutexkey # <<>> /\ task[u].pc = "ret" /\ task[u].ret = "exec_ok"
          /\ task[u].status = 1

\* C7: with debounce > 0 and throttle > 0 the throttle check is not applied:
\* no invocation is returned as skipped by the throttle stage.
C7_DebounceWins ==
    \A t \in TaskIds :
        (task[t].debounce > 0 /\ task[t].throttle > 0) => task[t].ret # "throttle_skip"

\* ---------------------------------------------------- pipeline-level claims
\* C8: once the supervisor has received `stop`, it eventually joins every spy
\* thread (Joined), unless a second signal arrives (ForceExit).
C8_GracefulStopTerminates ==
    (sup = "Stopping") ~> (sup \in {"Joined", "ForceExit"})

\* the worker tasks of a spy, in the order of their events
Dispatched(s) == {t \in TasksOf(s) : task[t].pc # "idle"}
EventGapsBelow(s, d) ==
    \A t, u \in Dispatched(s) : u[2] = t[2] + 1 =>
        (task[t].seen < task[u].seen /\ task[u].seen - task[t].seen < d)

\* C4: in the pipeline (watcher, channel, dispatcher, pool of max_threads
\* threads) N events of one spy with the same limit key that arrive at
\* distinct instants with consecutive gaps below the debounce D cause exactly
\* one execution, the one for the last event; every other worker task
\* returns skipped = true. Stated for the pool size the claim names,
\* max_threads = 1, where worker tasks cannot race one another.
C4_PipelineDebounce ==
    \A s \in Spies :
        (/\ max_threads = 1
         /\ spys[s].debounce > 0 /\ spys[s].throttle = 0
         /\ fsleft = 0 /\ chan[s] = <<>>
         /\ Dispatched(s) # {}
         /\ AllReturned(Dispatched(s))
         /\ EventGapsBelow(s, spys[s].debounce))
        => \E t \in Dispatched(s) :
              /\ NotSkipped(Dispatched(s)) = {t}
              /\ \A u \in Dispatched(s) : u[2] <= t[2]

\* C9: with two spies running, one touch of stop_flg (and none of
\* stop_force_flg) never makes the process exit with code 1.
C9_ShutdownScenario ==
    (sentinel.touched[StopFlg] = 1 /\ sentinel.touched[StopForceFlg] = 0)
        => exited # "code1"

\* C10: while the supervisor is Stopping, the next message on the sentinel
\* channel can be taken at once, whatever the dispatchers and commands are
\* doing, and taking it makes the process exit with code 1.
C10_SecondSignalForcesExit ==
    /\ [](sup = "Stopping" /\ Alive /\ rx_stop # <<>> => ENABLED ForceRecv)
    /\ [][(sup = "Stopping" /\ rx_stop # <<>> /\ rx_stop' = Tail(rx_stop))
            => (exited' = "code1" /\ sup' = "ForceExit")]_vars

\* C10 happens: the process has exited with code 1 after a graceful stop had
\* begun, while a dispatcher was being joined and a child was running.
C10_Witness ==
    /\ exited = "code1"
    /\ par[1] = "joining"
    /\ \E t \in PipeTasks : task[t].pc = "wait"

\* ------------------------------------------------------------ further claims
\* C11: when the supervisor in state Running takes `stop_force` from the
\* sentinel channel (which it can do at once), the process exits with code 1
\* in that step: no Stop is sent, no par_iter job is injected, no dispatcher
\* and no invocation moves; and nothing happens after the exit.
C11_ForcedShutdown ==
    /\ [](sup = "Running" /\ Alive /\ rx_stop # <<>> => ENABLED SupRecv)
    /\ [][(sup = "Running" /\ rx_stop # <<>> /\ Head(rx_stop) = "stop_force"
                /\ rx_stop' = Tail(rx_stop))
            => (exited' = "code1" /\ chan' = chan /\ dsp' = dsp /\ par' = par
                /\ injq' = injq /\ task' = task)]_vars
    /\ [][exited = "no"]_vars

\* C11 happens: the process has exited with code 1 from Running while a
\* dispatcher was in its loop with no Stop in its channel and a child ran.
C11_Witness ==
    /\ exited = "code1"
    /\ \A s \in Spies : par[s] = "none" /\ dsp[s] = "loop"
    /\ \A s \in Spies : \A i \in 1..Len(chan[s]) : chan[s][i] # StopMsg
    /\ \E t \in PipeTasks : task[t].pc = "wait"

\* a path that lies under a directory
UnderDir(path, dir) ==
    Len(path) > Len(dir) /\ SubSeq(path, 1, Len(dir)) = dir

\* C12: while the child of an invocation runs, and when the invocation has
\* returned skipped = false, its stdout and stderr paths are non-empty, lie
\* under the rendered output directory and name files that exec has created;
\* an invocation that returned skipped = true carries empty paths and has
\* created no log file.
C12_ResultShape ==
    \A t \in TaskIds :
        /\ (task[t].pc = "wait"
                \/ (task[t].pc \in {"ret", "sent"} /\ ResultOf(t).ok
                        /\ ~ResultOf(t).skipped))
            => (/\ task[t].stdout # <<>> /\ task[t].stderr # <<>>
                /\ UnderDir(task[t].stdout, task[t].info.output)
                /\ UnderDir(task[t].stderr, task[t].info.output)
                /\ {task[t].stdout, task[t].stderr} \subseteq task[t].logs
                /\ (task[t].pc # "wait" =>
                        /\ ResultOf(t).stdout = task[t].stdout
                        /\ ResultOf(t).stderr = task[t].stderr))
        /\ (task[t].pc \in {"ret", "sent"} /\ ResultOf(t).ok /\ ResultOf(t).skipped)
            => (/\ ResultOf(t).stdout = <<>> /\ ResultOf(t).stderr = <<>>
                /\ task[t].logs = {})

\* C12 happens: one invocation has executed and returned, another one with
\* the same keys has returned skipped.
C12_Witness ==
    \E t, u \in HarnessTasks :
        /\ task[t].pc = "ret" /\ task[t].ret = "exec_ok"
        /\ task[u].pc = "ret" /\ Skipped(u)

\* C13: when the dispatcher takes an event with at least one path, it submits
\* a worker task for the first pattern, in declared order, whose regex matches
\* the event's last path, provided the token of the event's kind (Create,
\* Modify, Remove, Access, else Other) is one of the spy's events; otherwise
\* it submits nothing.
C13_RuleMatching ==
    [][\A s \in Spies :
        (/\ dsp[s] = "loop" /\ chan[s] # <<>> /\ Head(chan[s]) # StopMsg
         /\ Head(chan[s]).paths # <<>>
         /\ chan'[s] = Tail(chan[s]))
        => LET ev == Head(chan[s])
               path == ev.paths[Len(ev.paths)]
               tok == IF ev.kind \in {"Create", "Modify", "Remove", "Access"}
                      THEN ev.kind ELSE "Other"
               pats == spys[s].patterns
               first == {i \in 1..Len(pats) :
                            /\ IsMatch(pats[i].pattern, path)
                            /\ \A j \in 1..(i - 1) : ~IsMatch(pats[j].pattern, path)}
               events == spys[s].events[1]
           IN IF (\E k \in 1..Len(events) : events[k] = tok)
                    /\ first # {}
              THEN \E i \in first :
                    /\ task'[NextTask(s)].pc = "queued"
                    /\ task'[NextTask(s)].info.cmd = pats[i].cmd
                    /\ task'[NextTask(s)].info.arg = pats[i].arg
                    /\ task'[NextTask(s)].info.event_path = path
                    /\ injq' = Append(injq, NextTask(s))
              ELSE task' = task /\ injq' = injq]_vars

\* C13 happens: for an event whose last path matches both patterns of the
\* spy, the worker task is the one of the first pattern.
C13_Witness ==
    \E t \in PipeTasks :
        /\ task[t].pc = "queued"
        /\ spys[t[1]].patterns = <<PatAny, PatPs1>>
        /\ task[t].info.event_path = EventPath
        /\ task[t].info.cmd = PatAny.cmd

\* C14: an event without a path never makes a dispatcher fail: no dispatcher
\* thread ends by a panic.
C14_EmptyPathsUnmatched ==
    \A s \in Spies : dsp[s] # "panicked"

\* C15: with debounce = 0 and throttle = 0 an invocation is at the mutex stage
\* right after rendering, is never in a debounce or throttle stage, never
\* returns skipped by one of them, never panics, and the debounce/throttle
\* cache is never written.
C15_NoRateLimit ==
    /\ []((spys[Harness].debounce = 0 /\ spys[Harness].throttle = 0)
            => (/\ dt_cache[Harness] = <<>>
                /\ \A t \in HarnessTasks :
                    /\ task[t].pc \notin {"deb_stamp", "deb_sleep", "thr_now", "thr_check"}
                    /\ task[t].ret \notin {"debounce_skip", "throttle_skip", "panic"}))
    /\ [][\A t \in HarnessTasks :
            (/\ spys[Harness].debounce = 0 /\ spys[Harness].throttle = 0
             /\ task[t].pc = "idle" /\ task'[t].pc # "idle")
            => task'[t].pc = "mutex"]_vars

\* C15 happens: with no rate limit every invocation has returned, one of
\* them after executing its command.
C15_Witness ==
    /\ spys[Harness].debounce = 0 /\ spys[Harness].throttle = 0
    /\ \A t \in HarnessTasks : task[t].pc = "ret"
    /\ \E t \in HarnessTasks : task[t].ret = "exec_ok"

\* C16: with the mutexkey template "" and debounce = throttle = 0 no
\* invocation is skipped by the mutex stage, whatever the other invocations
\* and their CommandInfo are.
C16_EmptyMutexTemplate ==
    (/\ spys[Harness].mutexkey = TmplEmpty
     /\ spys[Harness].debounce = 0 /\ spys[Harness].throttle = 0)
    => \A t \in HarnessTasks : task[t].ret # "mutex_skip"

\* C17: with the limitkey template "" an invocation is skipped by debounce
\* or throttle only through an invocation whose rendered CommandInfo is equal
\* to its own: invocations that differ in a field never skip one another.
C17_DefaultLimitKey ==
    \A u \in HarnessTasks :
        (/\ spys[Harness].limitkey = TmplEmpty
         /\ task[u].ret \in {"debounce_skip", "throttle_skip"})
        => \E t \in HarnessTasks \ {u} :
                task[t].pc # "idle" /\ task[t].info = task[u].info

\* C18: with throttle W > 0 and debounce 0, of two worker tasks of two
\* different spies that have the same limit key and read their clock within
\* W of one another, exactly one returns skipped = false.
C18_ProcessWideCache ==
    \A t, u \in PipeTasks :
        (/\ t[1] # u[1]
         /\ task[t].pc = "ret" /\ task[u].pc = "ret"
         /\ task[t].debounce = 0 /\ task[t].throttle > 0
         /\ task[u].debounce = 0 /\ task[u].throttle > 0
         /\ task[t].limitkey = task[u].limitkey
         /\ WithinWindow({t, u}, task[t].throttle))
        => Cardinality(NotSkipped({t, u})) = 1

\* C19: a failure of a worker (rendering, output directory, log file, spawn)
\* never ends the process, and the completion drain logs it as an error.
C19_ErrorsStayInWorker ==
    /\ exited # "abort"
    /\ \A t \in PipeTasks :
          (task[t].pc = "logged" /\ task[t].ret \in {"render_err", "exec_err", "panic"})
            => task[t].logged = "error"

\* C20: when a child exits, with status zero or not, exec returns Ok with
\* that status and skipped = false, the mutex key of the invocation is no
\* longer in the mutex set, and the completion drain logs a success.
C20_NonZeroStatusIsOk ==
    /\ [][\A t \in TaskIds :
            (task[t].pc = "wait" /\ task'[t].pc # "wait")
            => (/\ task'[t].ret = "exec_ok"
                /\ task'[t].status \in {0, 1}
                /\ task[t].mutexkey \notin mutex_cache')]_vars
    /\ [](\A t \in TaskIds :
            (task[t].pc \in {"ret", "sent"} /\ task[t].ret = "exec_ok")
            => (/\ ResultOf(t).ok /\ ~ResultOf(t).skipped
                /\ ResultOf(t).status = task[t].status))
    /\ [][\A t \in PipeTasks :
            (/\ task[t].pc = "sent" /\ task[t].ret = "exec_ok"
             /\ task'[t].pc = "logged")
            => task'[t].logged = "success"]_vars

\* C20 happens: the result of a child that exited with status 1 is in the
\* completion channel as a success and its mutex key is free again.
C20_Witness ==
    \E t \in PipeTasks :
        /\ task[t].pc = "sent" /\ task[t].ret = "exec_ok"
        /\ task[t].status = 1
        /\ task[t].mutexkey # <<>> /\ task[t].mutexkey \notin mutex_cache

\* C21: an init command is entered at most once, and it has returned before
\* any spy runtime exists; after a failed init with error_stop the only step
\* is the abort, and no spy runtime is ever started; after a failed init
\* without error_stop main goes on to start every spy.
C21_InitOrdering ==
    /\ [][task[InitTask].pc # "idle" => task'[InitTask].pc # "idle"]_vars
    /\ []((init.present /\ \E s \in Spies : dsp[s] # "unborn")
            => task[InitTask].pc = "ret")
    /\ []((init.present /\ init.error_stop /\ task[InitTask].pc # "idle"
                /\ task[InitTask].ret \in {"render_err", "exec_err", "panic"})
            => (/\ \A s \in Spies : dsp[s] = "unborn"
                /\ (Alive => ENABLED InitAbort)
                /\ ~ENABLED SupStart))
    /\ []((init.present /\ ~init.error_stop /\ task[InitTask].pc = "ret"
                /\ task[InitTask].ret \in {"render_err", "exec_err", "panic"}
                /\ \A s \in Spies : dsp[s] = "unborn")
            => ENABLED SupStart)
    /\ [][sup = "Initializing" /\ sup' = "Running"
            => \A s \in Spies : dsp'[s] # "unborn"]_vars

\* the messages of a channel that are events with the one path `path`
EventsFor(s, path) ==
    Len(SelectSeq(chan[s], LAMBDA m : m # StopMsg /\ m.paths = <<path>>))

\* C22: the walk of a spy never fails, and when it is over the channel holds
\* exactly one event for every entry within [min_depth, max_depth] that is a
\* file whose path matches the pattern (for every entry in the range when no
\* pattern is set) and none for any other entry; each event has the kind
\* named by the first of the spy's events, Modify when there is none.
C22_StartupWalk ==
    \A s \in Spies :
        /\ dsp[s] # "panicked"
        /\ dsp[s] = "loop" =>
            LET walk == spys[s].walk[1]
                events == spys[s].events
                wanted(e) ==
                    /\ (walk.min_depth # None => e.depth >= walk.min_depth[1])
                    /\ (walk.max_depth # None => e.depth <= walk.max_depth[1])
                    /\ (walk.pattern # None =>
                            e.file /\ IsMatch(walk.pattern[1], e.path))
            IN /\ \A i \in 1..Len(Tree) :
                    EventsFor(s, Tree[i].path) = IF wanted(Tree[i]) THEN 1 ELSE 0
               /\ \A i \in 1..Len(chan[s]) :
                    /\ (events = None \/ events = Some(<<>>))
                            => chan[s][i].kind = "Modify"
                    /\ (events # None /\ events # Some(<<>>)
                            /\ events[1][1] \in {"Access", "Create", "Modify", "Remove"})
                            => chan[s][i].kind = events[1][1]

\* the channel holds an event whose last path is `path`
Delivered(s, path) ==
    \E i \in 1..Len(chan[s]) :
        /\ chan[s][i] # StopMsg /\ chan[s][i].paths # <<>>
        /\ chan[s][i].paths[Len(chan[s][i].paths)] = path

\* C23 as stated: once notify has handed every result to the callback, every
\* file created under the input directory since Spy::watch returned has an
\* event on the spy's channel whose last path is that file.
C23_EveryFileDelivered ==
    \A s \in Spies :
        (dsp[s] = "loop" /\ watch[s].pending = <<>>)
            => \A f \in watch[s].created : Delivered(s, f)

\* C23 amended: a file created right in the input directory, or anywhere
\* below it when the spy is recursive, after Spy::watch returned leads to an
\* event on the spy's channel whose last path is that file.
C23_WatchedFileDelivered ==
    \A s \in Spies : \A f \in NewFiles :
        (f \in watch[s].created /\ (spys[s].recursive \/ Depth(f) = 1))
            ~> Delivered(s, f)

\* C23 happens: the file below a directory of a recursive spy's input and
\* the file right in the input have their events, after an error of notify.
C23_Witness ==
    \E s \in Spies :
        /\ spys[s].recursive
        /\ watch[s].created = NewFiles
        /\ \A f \in NewFiles : Delivered(s, f)
        /\ Len(chan[s]) = 2 /\ fsleft = 0

\* what the "default" entry of the config, or Spy::default() when the config
\* declares none, has for the spies to fall back on
Fallback ==
    IF \E i \in DOMAIN toml : toml[i].name = "default"
    THEN Deserialize(toml[CHOOSE i \in DOMAIN toml : toml[i].name = "default"])
    ELSE SpyDefault

\* C24: after Settings::rebuild every spy other than "default" has each field
\* it omitted set to the value of the "default" entry (the built-in defaults
\* when there is no such entry), and its events and patterns lists are
\* present and non-empty.
C24_DefaultFallback ==
    sup = "Initializing" =>
        \A i \in DOMAIN toml : toml[i].name # "default" =>
            /\ toml[i].events = None => spys[i].events = Fallback.events
            /\ toml[i].throttle = None => spys[i].throttle = Fallback.throttle
            /\ toml[i].limitkey = None => spys[i].limitkey = Fallback.limitkey
            /\ toml[i].patterns = None => spys[i].patterns = Fallback.patterns
            /\ toml[i].recursive = None => spys[i].recursive = Fallback.recursive
            /\ spys[i].events # None /\ spys[i].events # Some(<<>>)
            /\ spys[i].patterns # None /\ spys[i].patterns # Some(<<>>)

AcquireStep(t) == task[t].pc = "mutex" /\ task'[t].pc # "mutex"

\* another invocation with the same rendered CommandInfo is executing
Twin(t) ==
    \E u \in TaskIds \ {t} :
        /\ u[1] = t[1]
        /\ task[u].pc \in {"exec", "wait"}
        /\ task[u].info = task[t].info

ThrottleStep(t) == task[t].pc = "thr_check" /\ task'[t].pc # "thr_check"

\* invocations that apply_throttle has let pass
PassedThrottle(t) ==
    /\ task[t].throttle > 0
    /\ task[t].pc \in {"mutex", "exec", "wait", "ret"}
    /\ task[t].ret \notin {"debounce_skip", "throttle_skip", "render_err", "panic"}

\* C27: an invocation that throttle skips leaves cache[limitkey] unchanged;
\* one whose `now` is at least `throttle` after cache[limitkey], or that
\* finds no entry, writes cache[limitkey] = now and proceeds; so the
\* invocations of one key that proceed are pairwise at least `throttle`
\* apart.
C27_ThrottleLeadingEdge ==
    /\ [][\A t \in TaskIds : ThrottleStep(t) =>
            LET cache == dt_cache[t[1]]
                k == task[t].limitkey
            IN  /\ task'[t].ret = "throttle_skip" => dt_cache' = dt_cache
                /\ (k \notin DOMAIN cache
                        \/ task[t].now - cache[k] >= task[t].throttle)
                    => /\ task'[t].pc = "mutex"
                       /\ dt_cache'[t[1]][k] = task[t].now]_vars
    /\ [](\A t, u \in TaskIds :
            (/\ t # u /\ t[1] = u[1]
             /\ task[t].limitkey = task[u].limitkey
             /\ PassedThrottle(t) /\ PassedThrottle(u))
            => \/ task[t].now - task[u].now >= task[t].throttle
               \/ task[u].now - task[t].now >= task[t].throttle)

\* C28: a key once written to the debounce/throttle cache is never removed,
\* and the value stored for it never decreases, in every interleaving of the
\* writers.
C28_CacheKeepsLatest ==
    [][\A o \in Owners : \A k \in DOMAIN dt_cache[o] :
            /\ k \in DOMAIN dt_cache'[o]
            /\ dt_cache'[o][k] >= dt_cache[o][k]]_vars

\* C29: no thread holds the guard of the debounce/throttle cache and the
\* guard of the mutex set at once; none is held by a thread that sleeps for
\* debounce or whose child process runs; a thread that holds a guard drops
\* it with its next step.
C29_LockDiscipline ==
    /\ [](\A t \in HarnessTasks :
            /\ lk[t].held # {"dt_cache", "mutex_cache"}
            /\ lk[t].pc \in {"deb_sleep", "exec"} => lk[t].held = {})
    /\ [][\A t \in HarnessTasks :
            (lk[t].held # {} /\ lk'[t] # lk[t]) => lk'[t].held = {}]_vars

\* C29 happens: after debounce and throttle a thread holds the guard of the
\* mutex set while another one's child runs.
C29_Witness ==
    /\ spys[Harness].debounce > 0 /\ spys[Harness].throttle > 0
    /\ \E t, u \in HarnessTasks :
          /\ lk[t].pc = "acq_test" /\ lk[t].held = {"mutex_cache"}
          /\ lk[u].pc = "exec" /\ lk[u].held = {}

\* a worker task that was submitted and whose result the drain has not got
InFlight(t) == task[t].pc \notin {"idle", "logged"}

\* C30: a worker task that a dispatcher has submitted is never taken back;
\* unless the process is forced to exit it runs to completion and the drain
\* of its spy receives its result; the dispatcher thread exits only after
\* that, so when the supervisor is Joined no worker task runs or is queued.
C30_InFlightSurvives ==
    /\ [][\A t \in PipeTasks : InFlight(t) => task'[t].pc # "idle"]_vars
    /\ [](\A s \in Spies : dsp[s] = "exited" =>
            \A t \in TasksOf(s) : ~InFlight(t))
    /\ [](sup = "Joined" =>
            /\ \A t \in PipeTasks : ~InFlight(t)
            /\ \A i \in 1..Len(injq) : injq[i] \notin PipeTasks)
    /\ \A t \in PipeTasks :
            InFlight(t) ~> (task[t].pc = "logged" \/ sup = "ForceExit")

\* the dispatcher of s takes the event at the head of its channel
TakesEvent(s) ==
    /\ dsp[s] = "loop" /\ chan[s] # <<>> /\ Head(chan[s]) # StopMsg
    /\ Head(chan[s]).paths # <<>>
    /\ chan'[s] = Tail(chan[s])

\* C31: the dispatcher submits one worker task for an event that matches a
\* rule and none for an event that matches no rule, and submits a task in
\* no other step; every worker task that has begun ends with a value for the
\* completion channel, sends it once, and the drain receives it once.
C31_OneResultPerEvent ==
    /\ [][\A s \in Spies :
            IF TakesEvent(s) /\ FindPattern(Head(chan[s]), spys[s]) # NoPattern
            THEN /\ Cardinality(Dispatched(s)') = Cardinality(Dispatched(s)) + 1
                 /\ Len(injq') = Len(injq) + 1
            ELSE Dispatched(s)' = Dispatched(s)]_vars
    /\ [][\A t \in PipeTasks :
            /\ (task'[t].pc = "sent" /\ task[t].pc # "sent") => task[t].pc = "ret"
            /\ (task'[t].pc = "logged" /\ task[t].pc # "logged") => task[t].pc = "sent"
            /\ task[t].pc \in {"sent", "logged"} => task'[t].pc \in {"sent", "logged"}]_vars
    /\ [](\A t \in PipeTasks : task[t].pc = "ret" => task[t].ret # "panic")

\* the dispatcher thread of s has taken Stop
TookStop(s) == dsp[s] \in {"drain", "exited"}

\* C32: a dispatcher that has taken Stop submits no further worker task and
\* its channel holds nothing; a dispatcher takes messages from the head of
\* its channel only, an event is dispatched on match when it is taken, and
\* Stop is taken when it is at the head: every event ahead of it has been
\* taken by then, and the events behind it are dropped undispatched.
C32_StopEndsDispatch ==
    /\ [][\A s \in Spies : TookStop(s) =>
            (Dispatched(s)' = Dispatched(s) /\ TookStop(s)')]_vars
    /\ [](\A s \in Spies : TookStop(s) => chan[s] = <<>>)
    /\ [][\A s \in Spies :
            (chan'[s] # chan[s] /\ dsp[s] # "panicked" /\ dsp'[s] # "panicked") =>
                \/ /\ Len(chan'[s]) = Len(chan[s]) + 1
                   /\ SubSeq(chan'[s], 1, Len(chan[s])) = chan[s]
                \/ /\ chan[s] # <<>> /\ Head(chan[s]) # StopMsg
                   /\ chan'[s] = Tail(chan[s])
                   /\ dsp'[s] = "loop"
                   /\ (FindPattern(Head(chan[s]), spys[s]) # NoPattern
                        <=> Dispatched(s)' # Dispatched(s))
                \/ /\ chan[s] # <<>> /\ Head(chan[s]) = StopMsg
                   /\ chan'[s] = <<>>
                   /\ dsp[s] = "loop" /\ dsp'[s] = "drain"
                   /\ Dispatched(s)' = Dispatched(s)]_vars

\* C32 happens: a dispatcher has exited after Stop; the one event that was
\* ahead of Stop was dispatched and its result drained, the one event that
\* came after Stop was taken caused no task.
C32_Witness ==
    \E s \in Spies :
        /\ dsp[s] = "exited"
        /\ watch[s].cb = "panicked"
        /\ Cardinality(Dispatched(s)) = 1
        /\ \A t \in Dispatched(s) : task[t].pc = "logged"
        /\ fsleft = 0

\* the positions of the worker tasks of s in the injector queue
QueuedAt(s) == {i \in 1..Len(injq) : injq[i] \in TasksOf(s)}

\* C33: senders put messages at the tail of a spy's channel and the
\* dispatcher takes the head; a task it submits is the next one of the spy,
\* is made from that head and goes to the tail of the pool's queue. So the
\* tasks of a spy are numbered, and queued, in the order of their events: an
\* earlier task's event was not sent after a later task's, no task is queued
\* twice, and the queue holds the tasks of a spy in increasing order.
C33_SubmissionOrder ==
    /\ [][\A s \in Spies : chan'[s] # chan[s] =>
            \/ /\ Len(chan'[s]) = Len(chan[s]) + 1
               /\ SubSeq(chan'[s], 1, Len(chan[s])) = chan[s]
            \/ chan[s] # <<>> /\ chan'[s] = Tail(chan[s])]_vars
    /\ [][\A s \in Spies : Dispatched(s)' # Dispatched(s) =>
            /\ Dispatched(s)' = Dispatched(s) \cup {NextTask(s)}
            /\ chan[s] # <<>> /\ chan'[s] = Tail(chan[s])
            /\ task'[NextTask(s)].seen = Head(chan[s]).at
            /\ task'[NextTask(s)].info.event_path = LastPath(Head(chan[s]))
            /\ task'[NextTask(s)].info.event_kind = Head(chan[s]).kind
            /\ injq' = Append(injq, NextTask(s))]_vars
    /\ [](\A s \in Spies : \A t, u \in Dispatched(s) :
            t[2] < u[2] => task[t].seen <= task[u].seen)
    /\ [](\A s \in Spies : \A i, j \in QueuedAt(s) :
            i < j => injq[i][2] < injq[j][2])
    /\ [](\A s \in Spies : \A i \in 1..Cardinality(Dispatched(s)) :
            <<s, i>> \in Dispatched(s))

\* C33 happens: two events of a spy were sent at different instants, their
\* tasks were submitted in that order, and the later task has completed
\* while the earlier one is still running.
C33_Witness ==
    \E s \in Spies :
        /\ task[<<s, 1>>].seen < task[<<s, 2>>].seen
        /\ task[<<s, 2>>].pc = "logged"
        /\ task[<<s, 1>>].pc = "wait"

\* the moves of the supervisor that the state machine has
SupMoves ==
    {<<"Initializing", "Running">>, <<"Running", "Stopping">>,
     <<"Stopping", "Joined">>, <<"Running", "ForceExit">>,
     <<"Stopping", "ForceExit">>}

\* C34: the supervisor moves along Initializing, Running, Stopping, Joined,
\* and to ForceExit from Running or Stopping only; while it is Initializing
\* no signal is taken from the sentinel channel and the process does not exit.
C34_SupervisorStates ==
    /\ [][sup' # sup => <<sup, sup'>> \in SupMoves]_vars
    /\ [][sup = "Initializing" =>
            /\ exited' = "no"
            /\ Len(rx_stop') >= Len(rx_stop)
            /\ SubSeq(rx_stop', 1, Len(rx_stop)) = rx_stop]_vars

\* what a callback step has appended to the sentinel channel
NewSignals == SubSeq(rx_stop', Len(rx_stop) + 1, Len(rx_stop'))

\* C35: a sentinel watcher that is run with an event sends its own signal,
\* once, when the event's kind is Create or Modify and its last path is the
\* watcher's sentinel file, and sends nothing for any other event; nothing
\* else puts a signal on the sentinel channel.
C35_SentinelFilter ==
    /\ [][fsleft' < fsleft =>
            LET ev == sentinel'.last IN
            /\ SubSeq(rx_stop', 1, Len(rx_stop)) = rx_stop
            /\ IF /\ ev.kind \in {"Create", "Modify"}
                  /\ ev.paths # <<>>
                  /\ ev.paths[Len(ev.paths)] = FlgOf(ev.w)
               THEN NewSignals = <<ev.w>>
               ELSE NewSignals = <<>>]_vars
    /\ [][Len(rx_stop') > Len(rx_stop) => fsleft' < fsleft]_vars

\* C35 happens: the stop watcher has sent for a rename onto its file, and
\* the force watcher, run with a Remove of its own file, has sent nothing.
C35_Witness ==
    /\ rx_stop = <<"stop">>
    /\ sentinel.last = [w |-> "stop_force", kind |-> "Remove", paths |-> <<StopForceFlg>>]
    /\ fsleft = MaxEvents - 1

\* the filesystem watcher of s could not be set up
SetupFailed(s) == watch[s].cb = "failed"

\* C36: a spy whose filesystem watcher could not be set up is left out: its
\* dispatcher is never sent Stop and never joined; the failure touches no
\* other spy and does not end the process. (The log is not in the state.)
C36_WatcherFailurePerSpy ==
    /\ [](\A s \in Spies : SetupFailed(s) =>
            /\ par[s] \notin {"joining", "joined"}
            /\ \A i \in 1..Len(chan[s]) : chan[s][i] # StopMsg)
    /\ [][\A s \in Spies : (SetupFailed(s)' /\ ~SetupFailed(s)) =>
            /\ exited' = "no"
            /\ \A o \in Spies \ {s} :
                    dsp'[o] = dsp[o] /\ chan'[o] = chan[o] /\ watch'[o] = watch[o]
            /\ task' = task]_vars

\* the worker tasks whose keys have been rendered
Keyed == {t \in PipeTasks : task[t].pc \notin {"idle", "queued"}
                            /\ task[t].ret \notin {"render_err", "panic"}}

\* C37: with the limitkey template `{{ event_path }}` the limit key of an
\* invocation is made from its event's path: invocations of events with
\* different paths have different limit keys, and one of them is skipped by
\* throttle or debounce only when an invocation with its own path exists.
C37_KeysSeeTheEvent ==
    /\ \A t, u \in Keyed :
          (/\ spys[t[1]].limitkey = TmplEventPath
           /\ spys[u[1]].limitkey = TmplEventPath
           /\ task[t].info.event_path # task[u].info.event_path)
          => task[t].limitkey # task[u].limitkey
    /\ \A u \in Keyed :
          (/\ spys[u[1]].limitkey = TmplEventPath
           /\ task[u].ret \in {"debounce_skip", "throttle_skip"})
          => \E t \in Keyed \ {u} : task[t].info.event_path = task[u].info.event_path

\* the place of a stage in execute_command (lines 285-324)
StageRank(pc) ==
    CASE pc \in {"deb_stamp", "deb_sleep"} -> 1
      [] pc \in {"thr_now", "thr_check"} -> 2
      [] pc = "mutex" -> 3
      [] pc \in {"exec", "wait"} -> 4
      [] pc = "ret" -> 5
      [] OTHER -> 0

\* one step of invocation t through execute_command
StageStep(t) ==
    /\ task'[t] # task[t]
    /\ StageRank(task'[t].pc) > 0
    /\ task[t].pc # "ret"

\* C38: execute_command applies debounce, then throttle, then mutex: an
\* invocation never goes back to an earlier stage, comes to throttle only
\* through a passed debounce when debounce is on and to the mutex only through
\* a passed throttle when throttle is on; the steps of the debounce and
\* throttle stages, a skip by them included, leave the mutex set as it is;
\* an invocation skipped by the mutex stage comes from the acquire alone, has
\* created no log file and has spawned no child.
C38_StageOrderAndFrame ==
    [][\A t \in TaskIds : StageStep(t) =>
          /\ StageRank(task'[t].pc) >= StageRank(task[t].pc)
          /\ (StageRank(task'[t].pc) = 2 /\ StageRank(task[t].pc) # 2
                /\ task'[t].debounce > 0) => task[t].pc = "deb_sleep"
          /\ (task'[t].pc = "mutex" /\ task'[t].throttle > 0)
                => task[t].pc = "thr_check"
          /\ (task'[t].pc = "mutex" /\ task'[t].throttle = 0
                /\ task'[t].debounce > 0) => task[t].pc = "deb_sleep"
          /\ StageRank(task[t].pc) \in {1, 2} => mutex_cache' = mutex_cache
          /\ task'[t].ret = "debounce_skip" => task[t].pc = "deb_sleep"
          /\ task'[t].ret = "throttle_skip" => task[t].pc = "thr_check"
          /\ task'[t].ret = "mutex_skip" =>
                /\ task[t].pc = "mutex"
                /\ mutex_cache' = mutex_cache
                /\ task'[t].logs = {}
                /\ task'[t].stdout = <<>> /\ task'[t].stderr = <<>>
                /\ task'[t].status = 0]_vars

\* C38 happens: with debounce and throttle both on, one invocation has passed
\* both and holds its key, and a second one, which passed both as well, was
\* skipped by the mutex stage: no log file, no child, the set as it was.
C38_Witness ==
    \E t, u \in TaskIds :
        /\ task[t].pc \in {"exec", "wait"}
        /\ task[t].debounce > 0 /\ task[t].throttle > 0
        /\ task[t].mutexkey \in mutex_cache
        /\ task[u].ret = "mutex_skip" /\ task[u].logs = {}
        /\ task[u].debounce > 0 /\ task[u].throttle > 0
        /\ task[u].mutexkey = task[t].mutexkey

\* C39: no stop signal is lost. A message on the stop channel is taken off by
\* a receive alone, and only its head: while main runs the init command and
\* starts the spies the queue only grows. As soon as main is in its wait loop
\* with a message queued the receive is enabled and taken, and the first
\* message decides: "stop" begins the graceful stop, "stop_force" ends the
\* process with code 1.
C39_NoStopSignalLost ==
    /\ [][/\ rx_stop' # rx_stop =>
                \/ /\ Len(rx_stop') > Len(rx_stop)
                   /\ SubSeq(rx_stop', 1, Len(rx_stop)) = rx_stop
                \/ /\ sup \in {"Running", "Stopping", "Joined"}
                   /\ rx_stop # <<>>
                   /\ rx_stop' = Tail(rx_stop)
          /\ (sup = "Initializing" /\ sup' = "Running") => rx_stop' = rx_stop
          /\ (sup = "Running" /\ sup' # "Running") =>
                /\ rx_stop # <<>>
                /\ rx_stop' = Tail(rx_stop)
                /\ Head(rx_stop) = "stop" => (sup' = "Stopping" /\ exited' = "no")
                /\ Head(rx_stop) = "stop_force" =>
                      (sup' = "ForceExit" /\ exited' = "code1")]_vars
    /\ []((sup = "Running" /\ rx_stop # <<>>) => ENABLED SupRecv)
    /\ (sup = "Running" /\ rx_stop # <<>>) ~> (sup \in {"Stopping", "ForceExit"})

\* C39 happens: both sentinel files were touched while the init command's
\* child runs; "stop_force" and then "stop" wait in the stop channel.
C39_Witness ==
    /\ sup = "Initializing"
    /\ init.present
    /\ task[InitTask].pc = "wait"
    /\ rx_stop = <<"stop_force", "stop">>

\* C40: late events are harmless. While a dispatcher that has taken Stop
\* waits for its completion drain, and after it has exited, the callback of
\* its filesystem watcher has not failed: an event delivered then is
\* discarded, the send neither fails nor panics. The dispatcher goes from the
\* drain to its exit and nowhere else.
C40_LateEventsHarmless ==
    /\ [](\A s \in Spies : TookStop(s) => watch[s].cb = "alive")
    /\ [][\A s \in Spies : dsp[s] = "drain" => dsp'[s] \in {"drain", "exited"}]_vars

====
